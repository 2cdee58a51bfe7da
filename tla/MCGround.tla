------------------------------ MODULE MCGround ------------------------------
(***************************************************************************)
(* What the chats stand on, on small instances: their files on the         *)
(* dataset, the container plane, whose the working tree is, the pool's     *)
(* rule and the form a chat is asked for with.  They share no state here,  *)
(* so a behaviour is one of them and the others stand still.               *)
(***************************************************************************)
EXTENDS Dataset, Plane, Handover, PoolWalk, Form, TLC

CONSTANT Parts  \* which of them a run looks at

VARIABLE part

ASSUME NetworksHaveAShape == ShapesOK
ASSUME TreesHaveARoot == RootOK
ASSUME PoolsAreCounted == PoolsOK

-----------------------------------------------------------------------------
Still(part0, v, at0) == part = part0 \/ v = at0

NoPool == [scan |-> [c \in Pooled |-> [state |-> "absent", active |-> 0]],
           live |-> {}, busy |-> {}, cap |-> 0]

GroundInit ==
  /\ part \in Parts
  /\ Init /\ Still("files", subject, [w \in Writers |-> CHOOSE c \in Chats : TRUE])
  /\ PlaneInit /\ Still("plane", <<network, image>>, <<"none", FALSE>>)
  /\ TreeInit
  /\ pool \in (IF part = "pool" THEN Pools ELSE {NoPool})
  /\ IF part = "form" THEN FormInit ELSE field = "none" /\ text = <<>>

GroundNext ==
  \/ part = "files" /\ Next /\ UNCHANGED <<part, planeVars, treeVars, pool, form>>
  \/ part = "plane" /\ PlaneNext /\ UNCHANGED <<part, vars, treeVars, pool, form>>
  \/ part = "tree" /\ TreeNext /\ UNCHANGED <<part, vars, planeVars, pool, form>>
  \/ part = "pool" /\ LetGo /\ UNCHANGED <<part, vars, planeVars, treeVars, form>>
  \/ part = "form" /\ Type /\ UNCHANGED <<part, vars, planeVars, treeVars, pool>>

GroundSpec ==
  GroundInit /\ [][GroundNext]_<<part, vars, planeVars, treeVars, pool, form>>

Symmetry == Permutations(Calls) \cup Permutations(Housed)

=============================================================================
