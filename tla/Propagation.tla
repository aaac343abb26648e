---------------------------- MODULE Propagation ----------------------------
(***************************************************************************)
(* What WorkloadController promises of the member clusters, without its    *)
(* cache, its queue and its loops: users ask for contents of objects, and  *)
(* one object at a time gets a content somebody asked for, or goes because *)
(* something that asked for it is ending.  WorkloadController.tla          *)
(* implements this module, see WorkloadProperties.tla.                     *)
(***************************************************************************)
CONSTANTS
    Clusters,   \* the member clusters
    Objs,       \* the objects, by kind and name
    Vers,       \* the contents an object may have
    None        \* no object

VARIABLES
    asked,      \* <<c, o, x>>: cluster c was to have object o with content x
    ending,     \* <<c, o>>: something that asked for o in c is being deleted
    has         \* what each cluster has of each object

propvars == <<asked, ending, has>>

PropInit ==
    /\ asked = {}
    /\ ending = {}
    /\ has = [c \in Clusters |-> [o \in Objs |-> None]]

(* A user writes; what was once asked for remains so.  No write of a user, *)
(* and none of the controller at the host cluster, changes a member.       *)
Ask ==
    /\ asked' \in SUBSET (Clusters \X Objs \X Vers)
    /\ ending' \in SUBSET (Clusters \X Objs)
    /\ asked \subseteq asked'
    /\ ending \subseteq ending'
    /\ UNCHANGED has

Apply(c, o, x) ==
    /\ <<c, o, x>> \in asked
    /\ has' = [has EXCEPT ![c][o] = x]
    /\ UNCHANGED <<asked, ending>>

Remove(c, o) ==
    /\ <<c, o>> \in ending
    /\ has' = [has EXCEPT ![c][o] = None]
    /\ UNCHANGED <<asked, ending>>

PropNext ==
    \/ Ask
    \/ \E c \in Clusters, o \in Objs :
          Remove(c, o) \/ \E x \in Vers : Apply(c, o, x)

PropSpec == PropInit /\ [][PropNext]_propvars
=============================================================================
