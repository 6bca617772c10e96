SPECIFICATION Spec
CONSTANTS
  MaxJobs = 3
  MaxText = 2
PROPERTIES
  IdleMeansNothingToDo
