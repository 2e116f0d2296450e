-------------------------- MODULE MCTargetRegistry --------------------------
(***************************************************************************)
(* Instances of TargetRegistry for TLC.                                    *)
(***************************************************************************)
EXTENDS TargetRegistry, TLC

RegistrySymmetry ==
    Permutations(Requests) \cup Permutations(Backends) \cup Permutations(Fqdns)
    \cup Permutations(Secrets) \cup Permutations(ApplianceBundles) \cup Permutations(Keys)

(***************************************************************************)
(* Concurrent edits need two requests and two generations; keys, modes and *)
(* the appliance CA come and go between the requests of one administrator. *)
(* The run explores both, and not their product.                           *)
(***************************************************************************)
OnlyTargetsChange ==
    /\ \A k \in Keys : key[k] = NoKey
    /\ applianceCa = None
    /\ changes = 0 /\ mode = "gateway"
    /\ \A r \in Requests : request[r].op # "remove_ca"

OneRequestWorks ==
    /\ \E r \in Requests : \A q \in Requests \ {r} : request[q] = Idle
    /\ \A r \in Requests : request[r].op \in {"none", "register", "delete", "remove_ca"}
    /\ \A r \in Requests : request[r].tested # None => request[r].tested.ca = None
    /\ \A t \in Stored : row[t].generation = 1 /\ row[t].stores.ca = None

EditsOrKeys == OnlyTargetsChange \/ OneRequestWorks
=============================================================================
