---------------------------- MODULE ServicesProofs ----------------------------
(***************************************************************************)
(* The services together (MCServices).  In every behaviour of them each    *)
(* service behaves as its own specification says: the part that steps      *)
(* takes a step of it, the others stutter.  So whatever is proved of a     *)
(* service alone holds where it is checked, and the types of all of them   *)
(* hold at once.                                                           *)
(***************************************************************************)
EXTENDS MCServices, SessionProofs, OperatorProofs

Parts == {"store", "manifest", "dream", "justify", "migrate", "purge", "logs", "registry", "groups",
          "room"}

LEMMA PartsStart ==
    Init => /\ LocalInit /\ ManifestInit /\ DreamInit /\ MigrateInit /\ PurgeInit
            /\ OpsInit /\ RegistryInit /\ GroupsInit /\ EvictInit
            /\ part \in Parts
BY DEF Init, Parts

\* One service steps, and the others rest.
LEMMA PartsStep ==
    [Next]_<<part, all>> =>
        /\ [LocalNext]_localvars /\ [ManifestNext]_manifestvars /\ [DreamNext]_dreamvars
        /\ [MigrateNext]_migratevars /\ [PurgeNext]_purgevars /\ [OpsNext]_opsvars
        /\ [RegistryNext]_registryvars /\ [GroupsNext]_groupvars /\ [EvictNext]_evictvars
        /\ UNCHANGED part
<1> SUFFICES ASSUME [Next]_<<part, all>>
             PROVE  /\ [LocalNext]_localvars /\ [ManifestNext]_manifestvars /\ [DreamNext]_dreamvars
                    /\ [MigrateNext]_migratevars /\ [PurgeNext]_purgevars /\ [OpsNext]_opsvars
                    /\ [RegistryNext]_registryvars /\ [GroupsNext]_groupvars /\ [EvictNext]_evictvars
                    /\ UNCHANGED part
  OBVIOUS
<1>1. CASE UNCHANGED <<part, all>>
  BY <1>1 DEF all
<1>2. CASE StoreStep
  BY <1>2 DEF StoreStep
<1>3. CASE ManifestStep
  BY <1>3 DEF ManifestStep
<1>4. CASE DreamStep
  BY <1>4 DEF DreamStep
<1>5. CASE JustifyStep
  BY <1>5 DEF JustifyStep
<1>6. CASE MigrateStep
  BY <1>6 DEF MigrateStep
<1>7. CASE PurgeStep
  BY <1>7 DEF PurgeStep
<1>8. CASE LogStep
  BY <1>8 DEF LogStep
<1>9. CASE RegistryStep
  BY <1>9 DEF RegistryStep
<1>10. CASE GroupStep
  BY <1>10 DEF GroupStep
<1>11. CASE RoomStep
  BY <1>11 DEF RoomStep
<1>12. QED
  BY <1>1, <1>2, <1>3, <1>4, <1>5, <1>6, <1>7, <1>8, <1>9, <1>10, <1>11 DEF Next

(* A behaviour of the services together is one of the native store, of the manifest, of  *)
(* the dream cycle, of the migration, of the purge, of the operational log, of the       *)
(* registry, of the groups and of the room of the index: what is proved of any of them   *)
(* (local_ingress.py, facts_manifest.py, memory_status.py, cm_ops.py, retention.py,      *)
(* store_context.py, control_plane.py, sync_global.py) holds of it.                      *)
THEOREM ServicesCompose ==
    Spec => /\ LocalSpec /\ ManifestSpec /\ DreamSpec /\ MigrateSpec /\ PurgeSpec
            /\ OpsSpec /\ RegistrySpec /\ GroupsSpec /\ EvictSpec
<1>1. QED
  BY PartsStart, PartsStep, PTL DEF Spec, LocalSpec, ManifestSpec, DreamSpec, MigrateSpec, PurgeSpec,
     OpsSpec, RegistrySpec, GroupsSpec, EvictSpec

\* The part that steps is one of the services.
InParts == part \in Parts

LEMMA PartStays == Spec => []InParts
<1>1. Init => InParts
  BY PartsStart DEF InParts
<1>2. InParts /\ [Next]_<<part, all>> => InParts'
  BY PartsStep DEF InParts
<1>3. QED
  BY <1>1, <1>2, PTL DEF Spec

LEMMA TypesOfAll ==
    ASSUME InParts,
           LocalTypeOK, ManifestTypeOK, DreamTypeOK, MigrateTypeOK, PurgeTypeOK, OpsTypeOK,
           RegistryTypeOK, GroupTypeOK, EvictTypeOK
    PROVE  TypeOK
BY Zenon DEF TypeOK, InParts, Parts

(* Every place of the state of the services is of its type, for every number of          *)
(* sessions, projects, facts and operators, and every bound (the modules of the services *)
(* name the code each of them is about).                                                 *)
THEOREM ServicesTyped == Spec => []TypeOK
<1>1. QED
  BY ServicesCompose, PartStays, TypesOfAll, LocalTyped, ManifestTyped, DreamTyped, MigrateTyped,
     PurgeTyped, LogTyped, RegistryTyped, GroupsTyped, RoomTyped, PTL

(* What the services promise holds where all of them are checked.                        *)
THEOREM ServicesKeep ==
    Spec => /\ StaysReachable /\ EvictionSticks /\ CuesFresh /\ ServedIsTrue
            /\ []ExitZeroIsLogged /\ WindowCounted /\ QuietUntilClock
            /\ RollbackRestores /\ []NoMirrorOutlivesRegistry /\ []RowsStay
            /\ []OpenedIsWhole /\ []RevokedStaysRevoked /\ []RemovedHoldsNone /\ EvictPays
<1>1. QED
  BY ServicesCompose, NothingIsLost, EvictedStaysOut, CuesAreCurrent, ServedHolds, LoggedWhenClean,
     CountsEachCycleOnce, StaysQuiet, RollbackIsExact, NoMirrorLeft, KeepsItsRows, WholeWhenOpened,
     RevokedForGood, RemovalHolds, PullPays, PTL
=============================================================================
