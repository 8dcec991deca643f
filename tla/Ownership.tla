------------------------------ MODULE Ownership ------------------------------
(***************************************************************************)
(* What the operator promises about control of the objects it manages, and *)
(* nothing else: a name is free, held by an object without a controller,   *)
(* held by something else, or held by one incarnation of the agent.  An    *)
(* incarnation takes what is free, uncontrolled or left over from an       *)
(* earlier incarnation; what something else controls can only disappear.   *)
(* HermesReconciler implements this specification.                         *)
(***************************************************************************)
EXTENDS Integers

CONSTANTS
    Resources,  \* names of the objects
    Free        \* no object of this name

Uncontrolled == 0
Foreign      == -1

VARIABLES
    holder,  \* by name: Free, Uncontrolled, Foreign or the number of an incarnation
    born     \* incarnations of the agent so far

ownership == <<holder, born>>

Init ==
    /\ holder = [r \in Resources |-> Free]
    /\ born = 0

\* The agent is created, for the first time or again.
BeBorn ==
    /\ born' = born + 1
    /\ UNCHANGED holder

\* An incarnation comes to control what it may take.
Take(r) ==
    \E n \in 1 .. born :
        /\ holder[r] \in {Free, Uncontrolled} \cup (1 .. n)
        /\ holder'[r] = n

\* Somebody else creates an object.
Appear(r) ==
    /\ holder[r] = Free
    /\ holder'[r] \in {Uncontrolled, Foreign}

Disappear(r) == holder'[r] = Free

\* The holder of one name changes.
Change(r) ==
    /\ holder'[r] # holder[r]
    /\ Take(r) \/ Appear(r) \/ Disappear(r)
    /\ holder' = [holder EXCEPT ![r] = holder'[r]]
    /\ UNCHANGED born

Next == BeBorn \/ \E r \in Resources : Change(r)

Spec == Init /\ [][Next]_ownership
=============================================================================
