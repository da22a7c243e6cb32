SPECIFICATION FairSpec
CONSTANTS
  Ingress <- Ingresses
  Worker <- Workers
  Profile = "pilot"
  MaxVersion = 1
  MaxJobs = 1
  MaxFailures = 2
INVARIANTS
  TypeOK
PROPERTIES
  CountedJobsAreNotCancelled
  ServicesComeBack
  MachineSettles
