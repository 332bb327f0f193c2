SPECIFICATION Spec
CONSTANTS
  Processes = {p1, p2}
  Nobody = nobody
  DeadSeconds = 0
  MaxTries = 2
  RebootWait = 2
  DogTime = 6
INVARIANTS
  TypeOK
  KilledOnlyWhenLate
  FedInTime
  NoticedInTime
PROPERTIES
  ResetOnlyForStuck
  LateIsNoticed
