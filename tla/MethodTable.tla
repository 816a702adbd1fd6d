----------------------------- MODULE MethodTable -----------------------------
(***************************************************************************)
(* One callable of a source while the source is read: types are declared,  *)
(* methods installed, and between them the ranges of the arguments of a    *)
(* call are put together one type at a time, the way TypeRange::new does:  *)
(* the points first and then the generators, each in the order a hash set  *)
(* happens to give.  Every state is a call that could stand there.         *)
(***************************************************************************)
EXTENDS Dispatch

CONSTANTS Objects,       \* identities that are not types
          Domains,       \* domains methods are installed on
          MaxInstalled, MaxInserted   \* bounds

ASSUME MethodTableAssumption ==
  /\ Objects \cap (DOMAIN BaseUp \cup SourceTypes) = {}
  /\ \A domain \in Domains : domain \in Seq(Objects \cup DOMAIN BaseUp \cup SourceTypes)
  /\ MaxInstalled \in Nat /\ MaxInserted \in Nat

VARIABLES installed,   \* MethodInstallations of the callable, oldest first
          range,       \* the TypeRange being put together
          points, cones   \* what was inserted in it

tableVars == <<up, installed, range, points, cones>>

TableInit ==
  /\ up = BaseUp
  /\ installed = <<>>
  /\ range = Diverges
  /\ points = {} /\ cones = {}

Declare(t, parent) ==
  /\ parent \in Known
  /\ DeclareType(t, parent)
  /\ UNCHANGED <<installed, range, points, cones>>

\* Every installation has a codomain of its own, so that calls tell them apart.
Install(domain) ==
  /\ Len(installed) < MaxInstalled
  /\ \A i \in DOMAIN domain : domain[i] \in Known \cup Objects
  /\ installed' = Append(installed, [domain |-> domain, codomain |-> Len(installed) + 1])
  /\ UNCHANGED <<up, range, points, cones>>

InsertPoint(t) ==
  /\ t \in Known \ points
  /\ Cardinality(points) < MaxInserted /\ cones = {}
  /\ range' = InsertExact(range, t)
  /\ points' = points \cup {t}
  /\ UNCHANGED <<up, installed, cones>>

InsertCone(t) ==
  /\ t \in Known \ cones
  /\ Cardinality(cones) < MaxInserted
  /\ range' = InsertGenerator(range, t)
  /\ cones' = cones \cup {t}
  /\ UNCHANGED <<up, installed, points>>

TableNext ==
  \/ \E t \in SourceTypes, parent \in Known : Declare(t, parent)
  \/ \E domain \in Domains : Install(domain)
  \/ \E t \in Known : InsertPoint(t) \/ InsertCone(t)

TableSpec == TableInit /\ [][TableNext]_tableVars

-----------------------------------------------------------------------------
(* What a call sees. *)

Table == [i \in Effective(installed) |-> installed[i]]

\* Calls of one and of two arguments, the last of them the range.  A type the other
\* is of may be one that is not declared yet.
Calls ==
  LET types == Known \cup SourceTypes
  IN  {<<range>>} \cup {<<r, range>> : r \in {ExactType(t) : t \in types \cup Objects}
                                              \cup {UpwardType(t) : t \in types}}

-----------------------------------------------------------------------------
(* Properties. *)

TableTypeOK ==
  /\ Known \subseteq DOMAIN BaseUp \cup SourceTypes
  /\ up \in [Known -> SUBSET Known]
  /\ range \in TypeRange
  /\ points \subseteq Known /\ cones \subseteq Known
  /\ installed \in Seq([domain : Domains, codomain : Nat])
  /\ Len(installed) <= MaxInstalled

\* A range is the same whatever order its types come in, holds no type twice,
\* and stands for exactly the types that were put in: a hash set decides the
\* order in TypeRange::new, so anything else would change from run to run.
RangeIsItsContents ==
  /\ range = Normal(points, cones)
  /\ Denoted(range) = points \cup {t \in Known : \E g \in cones : IsSubtype(t, g)}

\* The candidates of a call are the methods it may run: every method some
\* arguments in the ranges run is there, and none else.  Past the bound on
\* products and where a type is unknown (dispatch_candidate_indices gives every
\* method of the arity) only the first half is left.
CandidatesAreRunnable ==
  \A call \in Calls :
    /\ Runnable(Table, call) \subseteq Candidates(Table, call)
    /\ ~GivesUp(call) => Candidates(Table, call) = Runnable(Table, call)
=============================================================================
