------------------------------ MODULE PartsProofs ------------------------------
(***************************************************************************)
(* The parts that run on their own, together (MCParts).  A behaviour of    *)
(* the instance that TLC checks is a behaviour of each part: the bounds    *)
(* leave behaviours out and add none.  So what is proved of a part holds   *)
(* of it there, and its types are proved here for the instance as it is    *)
(* checked.                                                                *)
(***************************************************************************)
EXTENDS MCParts, StoreProofs, DeclaredProofs, IdentityProofs

\* A calculation and an examination, on the same machine.
DoctorAllVars == <<deviceVars, doctorVars>>
DoctorAllNext == DoctorNext \/ (DeviceNext /\ UNCHANGED doctorVars)
DoctorAllSpec == DeviceInit /\ DoctorInit /\ [][DoctorAllNext]_DoctorAllVars

\* Each part of the instance behaves as it does alone.  (They share no file, no
\* variable and no process.)
THEOREM ModulesAlone ==
    PartsSpec =>
        /\ NebSpec /\ CheckpointSpec /\ StoreSpec /\ LayersSpec /\ TrajectorySpec
        /\ TaskFileSpec /\ SuitesSpec /\ SetupSpec /\ IdentitySpec /\ DeviceSpec
        /\ EvidenceInit /\ [][EvidenceNext]_evidenceVars
        /\ DoctorAllSpec
<1>1. PartsInit =>
        /\ NebInit /\ CheckpointInit /\ StoreInit /\ LayersInit /\ TaskFileInit /\ EvidenceInit
        /\ TrajectoryInit /\ SuitesInit /\ SetupInit /\ IdentityInit /\ DeviceInit /\ DoctorInit
  BY DEF PartsInit
<1>2. [PartsNext]_PartsVars =>
        /\ [NebNext]_nebVars /\ [CheckpointNext]_checkpointVars /\ [StoreNext]_storeVars
        /\ [LayersNext]_layerVars /\ [TaskFileNext]_taskVars /\ [EvidenceNext]_evidenceVars
        /\ [TrajectoryNext]_trajectoryVars /\ [SuitesNext]_suiteVars /\ [SetupNext]_setupVars
        /\ [IdentityNext]_identityVars /\ [DeviceNext]_deviceVars
        /\ [DoctorAllNext]_DoctorAllVars
  <2> SUFFICES ASSUME [PartsNext]_PartsVars
               PROVE  /\ [NebNext]_nebVars /\ [CheckpointNext]_checkpointVars /\ [StoreNext]_storeVars
                      /\ [LayersNext]_layerVars /\ [TaskFileNext]_taskVars /\ [EvidenceNext]_evidenceVars
                      /\ [TrajectoryNext]_trajectoryVars /\ [SuitesNext]_suiteVars /\ [SetupNext]_setupVars
                      /\ [IdentityNext]_identityVars /\ [DeviceNext]_deviceVars
                      /\ [DoctorAllNext]_DoctorAllVars
    OBVIOUS
  <2> USE DEF DoctorAllNext, DoctorAllVars
  <2>1. CASE UNCHANGED PartsVars
    BY <2>1 DEF PartsVars
  <2>2. CASE part = "neb" /\ NebNext /\ NebBound' /\ Others
    BY <2>2 DEF Others
  <2>3. CASE part = "checkpoints" /\ CheckpointNext /\ CheckpointBound' /\ Others
    BY <2>3 DEF Others
  <2>4. CASE part = "analyses" /\ StoreNext /\ AnalysisBound' /\ Others
    BY <2>4 DEF Others
  <2>5. CASE part = "layers" /\ LayersNext /\ LayersBound /\ Others
    BY <2>5 DEF Others
  <2>6. CASE part = "tasks" /\ TaskFileNext /\ Others
    BY <2>6 DEF Others
  <2>7. CASE part = "evidence" /\ EvidenceNext /\ EvidenceBound /\ Others
    BY <2>7 DEF Others
  <2>8. CASE part = "trajectories" /\ TrajectoryNext /\ TrajectoryBound' /\ Others
    BY <2>8 DEF Others
  <2>9. CASE part = "suites" /\ SuitesNext /\ SuitesBound /\ Others
    BY <2>9 DEF Others
  <2>10. CASE part = "setups" /\ SetupNext /\ SetupBound /\ Others
    BY <2>10 DEF Others
  <2>11. CASE part = "workers" /\ IdentityNext /\ Others
    BY <2>11 DEF Others
  <2>12. CASE part = "devices" /\ DeviceNext /\ DevicesBound /\ Others
    BY <2>12 DEF Others
  <2>13. CASE part = "doctor" /\ DoctorNext /\ DoctorBound /\ Others
    <3>1. DeviceNext \/ UNCHANGED deviceVars
      BY <2>13 DEF DoctorNext, DeviceNext
    <3> QED BY <2>13, <3>1 DEF Others
  <2> QED BY <2>1, <2>2, <2>3, <2>4, <2>5, <2>6, <2>7, <2>8, <2>9, <2>10, <2>11, <2>12, <2>13
          DEF PartsNext
<1> QED BY <1>1, <1>2, PTL DEF PartsSpec, NebSpec, CheckpointSpec, StoreSpec, LayersSpec, TrajectorySpec,
          TaskFileSpec, SuitesSpec, SetupSpec, IdentitySpec, DeviceSpec, DoctorAllSpec

\* Every part that moves in MCParts keeps its types, for every value of the constants
\* and not only for those of the instance.
THEOREM PartsTypesCorrect == PartsSpec => []PartsTypeOK
<1>1. PartsSpec => []NebTypeOK /\ []CheckpointTypeOK /\ []StoreTypeOK
  BY ModulesAlone, NebTypesInvariant, CheckpointTypesInvariant, StoreTypesInvariant, PTL
<1>2. PartsSpec => []TaskFileTypeOK /\ []EvidenceTypeOK
  BY ModulesAlone, TaskFileTypesCorrect, EvidenceTypesCorrect, PTL
<1>3. PartsSpec => []TrajectoryTypeOK /\ []SuitesTypeOK /\ []SetupTypeOK
  BY ModulesAlone, TrajectoryTypesCorrect, SuitesTypesCorrect, SetupTypesCorrect, PTL
<1>4. PartsSpec => []IdentityTypeOK /\ []DeviceTypeOK
  BY ModulesAlone, IdentityTypesCorrect, DeviceTypesCorrect, PTL
<1>5. DoctorAllSpec => [](DeviceTypeOK /\ DoctorTypeOK)
  BY DoctorTypesCorrect DEF DoctorAllSpec, DoctorAllNext, DoctorAllVars
<1>6. PartsSpec => []DoctorTypeOK
  BY <1>5, ModulesAlone, PTL
<1>7. /\ NebTypeOK /\ CheckpointTypeOK /\ StoreTypeOK /\ TaskFileTypeOK /\ EvidenceTypeOK
      /\ TrajectoryTypeOK /\ SuitesTypeOK /\ SetupTypeOK /\ IdentityTypeOK /\ DeviceTypeOK
      /\ DoctorTypeOK
      => PartsTypeOK
  BY DEF PartsTypeOK
<1> QED BY <1>1, <1>2, <1>3, <1>4, <1>6, <1>7, PTL
===============================================================================
