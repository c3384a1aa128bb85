----------------------------- MODULE GroupSpec -----------------------------
(***************************************************************************)
(* What one memo Group promises to the rule-driven search (spec 4.2), with *)
(* no index structure at all: the Group is the sequence of its surviving   *)
(* members in discovery order and a cache of implementations keyed by the  *)
(* required physical property.  Every query is answered by searching that  *)
(* sequence directly.  MemoGroup is shown to implement this module.        *)
(***************************************************************************)
EXTENDS Sequences, SequencesExt

CONSTANTS
    Operands,     \* operator kinds of a GroupExpr (projection, limit, ...)
    OperandAny,   \* the wildcard kind accepted by GetFirstElem
    ChildGroups,  \* identities of the operand Groups a GroupExpr refers to
    PhysProps,    \* required physical properties (structured values)
    Impls,        \* physical implementations
    NotFound      \* the "not found" / "no answer" value

ASSUME OperandAny \notin Operands

(* A GroupExpr is an operator kind over an operand Group.  Its structural *)
(* fingerprint is the pair itself, so equal fingerprints mean equal exprs. *)
GroupExprs == [op : Operands, child : ChildGroups]

VARIABLES
    members,   \* surviving members, earliest discovered first
    impls,     \* best implementation recorded per physical property
    answer     \* the visible result of the last operation

vars == <<members, impls, answer>>

Matches(e, k) == k = OperandAny \/ e.op = k

(* The earliest surviving member of kind k, searched for directly. *)
EarliestOfKind(k) ==
    LET i == SelectInSeq(members, LAMBDA e : Matches(e, k))
    IN  IF i = 0 THEN NotFound ELSE members[i]

Init ==
    /\ \E e \in GroupExprs : members = <<e>>
    /\ impls = [p \in PhysProps |-> NotFound]
    /\ answer = <<"NewGroup", NotFound>>

Insert(e) ==
    /\ IF Contains(members, e)
         THEN /\ answer' = <<"Insert", FALSE>>
              /\ UNCHANGED members
         ELSE /\ members' = Append(members, e)
              /\ answer' = <<"Insert", TRUE>>
    /\ UNCHANGED impls

Delete(e) ==
    /\ members' = Remove(members, e)
    /\ answer' = <<"Delete", NotFound>>
    /\ UNCHANGED impls

DeleteAll ==
    /\ members' = <<>>
    /\ answer' = <<"DeleteAll", NotFound>>
    /\ UNCHANGED impls

Exists(e) ==
    /\ answer' = <<"Exists", Contains(members, e)>>
    /\ UNCHANGED <<members, impls>>

GetFirstElem(k) ==
    /\ answer' = <<"GetFirstElem", EarliestOfKind(k)>>
    /\ UNCHANGED <<members, impls>>

InsertImpl(p, i) ==
    /\ impls' = [impls EXCEPT ![p] = i]
    /\ answer' = <<"InsertImpl", NotFound>>
    /\ UNCHANGED members

GetImpl(p) ==
    /\ answer' = <<"GetImpl", impls[p]>>
    /\ UNCHANGED <<members, impls>>

Next ==
    \/ \E e \in GroupExprs : Insert(e) \/ Delete(e) \/ Exists(e)
    \/ DeleteAll
    \/ \E k \in Operands \cup {OperandAny} : GetFirstElem(k)
    \/ \E p \in PhysProps, i \in Impls : InsertImpl(p, i)
    \/ \E p \in PhysProps : GetImpl(p)

Spec == Init /\ [][Next]_vars

=============================================================================
