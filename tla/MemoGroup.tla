----------------------------- MODULE MemoGroup -----------------------------
(***************************************************************************)
(* One equivalence-class Group of the memo (package planner/memo).  The   *)
(* Group's own source is not part of this repository: only its unit test  *)
(* src/planner/memo/group_test.go is, so every definition here follows    *)
(* spec 4.2 and that test.  State, as the spec names it:                   *)
(*   Equivalents   ordered member list, discovery order                    *)
(*   FirstExpr     per operand kind, the first member of that kind         *)
(*   Fingerprints  dedup index of the members' structural fingerprints     *)
(*   ImplMap       best Implementation per required physical property     *)
(* The operand-kind index is maintained incrementally by Insert and       *)
(* Delete; GroupSpec answers the same queries by searching the member     *)
(* list, and this module is checked to implement it.                      *)
(***************************************************************************)
EXTENDS Sequences, SequencesExt

CONSTANTS Operands, OperandAny, ChildGroups, PhysProps, Impls, NotFound

ASSUME OperandAny \notin Operands

GroupExprs == [op : Operands, child : ChildGroups]

VARIABLES
    equivalents,   \* Group.Equivalents
    firstExpr,     \* Group.FirstExpr : operand kind -> member or NotFound
    fingerprints,  \* Group.Fingerprints, as the set of indexed fingerprints
    implMap,       \* Group.ImplMap
    answer         \* the visible result of the last operation

vars == <<equivalents, firstExpr, fingerprints, implMap, answer>>

(* Position of member e in the list (0 when absent). *)
PosOf(e) == SelectInSeq(equivalents, LAMBDA x : x = e)

(* The next member after e that has e's operand kind, or NotFound. *)
NextOfKind(e) ==
    LET i == SelectInSubSeq(equivalents, PosOf(e) + 1, Len(equivalents),
                            LAMBDA x : x.op = e.op)
    IN  IF i = 0 THEN NotFound ELSE equivalents[i]

(* NewGroupWithSchema(expr, schema): expr is the sole member. *)
NewGroupWithSchema(e) ==
    /\ equivalents = <<e>>
    /\ firstExpr = [k \in Operands |-> IF k = e.op THEN e ELSE NotFound]
    /\ fingerprints = {e}
    /\ implMap = [p \in PhysProps |-> NotFound]
    /\ answer = <<"NewGroup", NotFound>>

Init == \E e \in GroupExprs : NewGroupWithSchema(e)

(* Mutant: the kind index always moves to the newest member. *)
InsertIndexNewest(e) ==
    IF e \in fingerprints
      THEN /\ answer' = <<"Insert", FALSE>>
           /\ UNCHANGED <<equivalents, firstExpr, fingerprints, implMap>>
      ELSE /\ equivalents' = Append(equivalents, e)
           /\ fingerprints' = fingerprints \cup {e}
           /\ firstExpr' = [firstExpr EXCEPT ![e.op] = e]
           /\ answer' = <<"Insert", TRUE>>
           /\ UNCHANGED implMap

(* Insert(expr): hash-consing on the fingerprint; a new member is appended *)
(* and becomes its kind's first member only if the kind had none.          *)
Insert(e) ==
    IF e \in fingerprints
      THEN /\ answer' = <<"Insert", FALSE>>
           /\ UNCHANGED <<equivalents, firstExpr, fingerprints, implMap>>
      ELSE /\ equivalents' = Append(equivalents, e)
           /\ fingerprints' = fingerprints \cup {e}
           /\ firstExpr' = IF firstExpr[e.op] = NotFound
                             THEN [firstExpr EXCEPT ![e.op] = e]
                             ELSE firstExpr
           /\ answer' = <<"Insert", TRUE>>
           /\ UNCHANGED implMap

(* Mutant: deleting a kind's first member leaves the index pointing at it. *)
DeleteNoAdvance(e) ==
    /\ IF e \notin fingerprints
         THEN UNCHANGED <<equivalents, firstExpr, fingerprints>>
         ELSE /\ equivalents' = Remove(equivalents, e)
              /\ fingerprints' = fingerprints \ {e}
              /\ UNCHANGED firstExpr
    /\ answer' = <<"Delete", NotFound>>
    /\ UNCHANGED implMap

(* Delete(expr): a no-op when absent; otherwise the kind index pointing at *)
(* the removed member advances to the next surviving member of that kind. *)
Delete(e) ==
    /\ IF e \notin fingerprints
         THEN UNCHANGED <<equivalents, firstExpr, fingerprints>>
         ELSE /\ firstExpr' = IF firstExpr[e.op] = e
                                THEN [firstExpr EXCEPT ![e.op] = NextOfKind(e)]
                                ELSE firstExpr
              /\ equivalents' = Remove(equivalents, e)
              /\ fingerprints' = fingerprints \ {e}
    /\ answer' = <<"Delete", NotFound>>
    /\ UNCHANGED implMap

(* Mutant: DeleteAll empties the list but keeps the fingerprint index. *)
DeleteAllKeepIndex ==
    /\ equivalents' = <<>>
    /\ firstExpr' = [k \in Operands |-> NotFound]
    /\ answer' = <<"DeleteAll", NotFound>>
    /\ UNCHANGED <<fingerprints, implMap>>

(* DeleteAll(): clears the members and invalidates every kind index. *)
DeleteAll ==
    /\ equivalents' = <<>>
    /\ firstExpr' = [k \in Operands |-> NotFound]
    /\ fingerprints' = {}
    /\ answer' = <<"DeleteAll", NotFound>>
    /\ UNCHANGED implMap

Exists(e) ==
    /\ answer' = <<"Exists", e \in fingerprints>>
    /\ UNCHANGED <<equivalents, firstExpr, fingerprints, implMap>>

(* GetFirstElem(operand): the list front for the wildcard, else the index. *)
GetFirstElem(k) ==
    /\ answer' = <<"GetFirstElem",
                   IF k = OperandAny
                     THEN IF equivalents = <<>> THEN NotFound ELSE Head(equivalents)
                     ELSE firstExpr[k]>>
    /\ UNCHANGED <<equivalents, firstExpr, fingerprints, implMap>>

(* InsertImpl(prop, impl) always overwrites; GetImpl(prop) looks it up.    *)
InsertImpl(p, i) ==
    /\ implMap' = [implMap EXCEPT ![p] = i]
    /\ answer' = <<"InsertImpl", NotFound>>
    /\ UNCHANGED <<equivalents, firstExpr, fingerprints>>

GetImpl(p) ==
    /\ answer' = <<"GetImpl", implMap[p]>>
    /\ UNCHANGED <<equivalents, firstExpr, fingerprints, implMap>>

Next ==
    \/ \E e \in GroupExprs : Insert(e) \/ Delete(e) \/ Exists(e)
    \/ DeleteAll
    \/ \E k \in Operands \cup {OperandAny} : GetFirstElem(k)
    \/ \E p \in PhysProps, i \in Impls : InsertImpl(p, i)
    \/ \E p \in PhysProps : GetImpl(p)

Spec == Init /\ [][Next]_vars

-----------------------------------------------------------------------------
(* Properties *)

(* After any interleaving of Insert, Delete and DeleteAll, the operand-kind *)
(* index names, for every kind, the earliest-discovered surviving member  *)
(* of that kind, and nothing when none survives (no stale reference to a  *)
(* removed member, spec 4.2 GetFirstElem / Delete).                       *)
FirstExprIsEarliestSurvivor ==
    \A k \in Operands :
        LET i == SelectInSeq(equivalents, LAMBDA x : x.op = k)
        IN  firstExpr[k] = IF i = 0 THEN NotFound ELSE equivalents[i]

(* The fingerprint index and the member list describe the same members,   *)
(* and the list holds each fingerprint at most once (hash-consing: at most *)
(* one representation per expression, spec 4.2 Insert / DeleteAll).       *)
FingerprintsMatchMembers ==
    /\ fingerprints = ToSet(equivalents)
    /\ Len(equivalents) = Cardinality(fingerprints)

(* The Group implements GroupSpec: every answer of Insert, Exists,        *)
(* GetFirstElem and GetImpl is the one the index-free Group gives.        *)
Abstract == INSTANCE GroupSpec WITH members <- equivalents, impls <- implMap

AbstractSpec == Abstract!Spec

=============================================================================
