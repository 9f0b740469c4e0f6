------------------------ MODULE SlugAllocationProofs ------------------------
(***************************************************************************)
(* For any number of requests and any titles: slugs stay unique, a 500 is    *)
(* answered only to a request that another one overtook, or that was taken   *)
(* out of a circle of waits in which a renaming's rows are wanted, and a     *)
(* title gets the first free candidate unless another request committed      *)
(* meanwhile.                                                                *)
(***************************************************************************)
EXTENDS SlugAllocation, TLAPS

\* No product but its own has the slug that j wants.
Clear(j) == \A p \in Product : slugOf[p] = wanted[j] => p = Target(j)

\* A job that has written holds its slug alone: of the products and of the jobs.
WrittenIsHeld ==
  \A j \in Job : pc[j] = "commit" =>
    /\ Clear(j)
    /\ \A k \in Job : pc[k] = "commit" /\ wanted[k] = wanted[j] => k = j

\* What a job found free is free still, or somebody took it since.
FoundIsFree ==
  \A j \in Job : pc[j] \in {"query", "lock", "write"} =>
                    Clear(j) \/ wanted[j] \in taken[j]

\* Only a renaming locks rows; the foreign keys are checked at COMMIT.
LocksAreRenames ==
  \A j \in Job : /\ pc[j] \in {"query", "lock"} \/ locked[j] # {} => Rename(j)
                 /\ checked[j] # {} => pc[j] = "commit"

SlugInv ==
  TypeOK /\ SlugsUnique /\ WrittenIsHeld /\ FoundIsFree /\ LocksAreRenames /\ ErrorsOvertaken

-----------------------------------------------------------------------------
LEMMA InitSlugs == Init => SlugInv
  BY SlugAssumption DEF Init, SlugInv, TypeOK, SlugsUnique, WrittenIsHeld, FoundIsFree,
     LocksAreRenames, ErrorsOvertaken, Target

\* A check or a search that found the slug free found nobody else with it.
LEMMA FreeIsClear ==
  ASSUME NEW j \in Job, ~Exists(j)
  PROVE  Clear(j)
  BY DEF Exists, Clear

LEMMA TargetTypes ==
  ASSUME TypeOK, NEW j \in Job
  PROVE  Target(j) \in Product /\ SellerOf[Target(j)] \in Seller
  BY SlugAssumption DEF TypeOK, Target

\* What the others know is left alone by a step of j that writes no table.
OnlyMoves(j) ==
  /\ UNCHANGED <<order, slugOf>>
  /\ \A k \in Job \ {j} : /\ pc'[k] = pc[k] /\ answer'[k] = answer[k]
                          /\ wanted'[k] = wanted[k] /\ taken'[k] = taken[k]
                          /\ locked'[k] = locked[k] /\ checked'[k] = checked[k]
                          /\ blockers'[k] = blockers[k]

\* Such a step keeps the invariant if it does for j.
LEMMA MoveKeeps ==
  ASSUME SlugInv, NEW j \in Job, OnlyMoves(j), TypeOK',
         pc'[j] = "commit" =>
           /\ Clear(j)'
           /\ \A k \in Job \ {j} : pc[k] = "commit" => wanted[k] # wanted'[j],
         pc'[j] \in {"query", "lock", "write"} => Clear(j)' \/ wanted'[j] \in taken'[j],
         pc'[j] \in {"query", "lock"} \/ locked'[j] # {} => Rename(j),
         checked'[j] # {} => pc'[j] = "commit",
         answer'[j] = "error" =>
           wanted'[j] \in taken'[j] \/ \E k \in blockers'[j] : Rename(k)
  PROVE  SlugInv'
<1>1. \A k \in Job : (Target(k)' = Target(k)) /\ (Rename(k)' <=> Rename(k))
  BY DEF OnlyMoves, Target, Rename
<1>2. \A k \in Job \ {j} : Clear(k)' <=> Clear(k)
  BY <1>1 DEF OnlyMoves, Clear
<1>3. SlugsUnique'
  BY DEF SlugInv, SlugsUnique, OnlyMoves
<1>4. WrittenIsHeld'
  BY <1>2 DEF SlugInv, WrittenIsHeld, OnlyMoves
<1>5. FoundIsFree'
  BY <1>2 DEF SlugInv, FoundIsFree, OnlyMoves
<1>6. LocksAreRenames'
  BY <1>1 DEF SlugInv, LocksAreRenames, OnlyMoves
<1>7. ErrorsOvertaken'
  <2>1. blockers' \in [Job -> SUBSET Job]
    BY DEF TypeOK
  <2> QED
    BY <1>1, <2>1 DEF SlugInv, ErrorsOvertaken, OnlyMoves, TypeOK
<1> QED
  BY <1>3, <1>4, <1>5, <1>6, <1>7 DEF SlugInv

LEMMA CheckKeeps ==
  ASSUME SlugInv, NEW j \in Job, CheckSlug(j)
  PROVE  SlugInv'
<1>1. TypeOK'
  BY DEF SlugInv, TypeOK, CheckSlug, End, Go, FoundFree, AfterCheck
<1>2. OnlyMoves(j)
  BY DEF SlugInv, TypeOK, CheckSlug, End, Go, FoundFree, AfterCheck, OnlyMoves
<1>3. Clear(j)' <=> Clear(j)
  BY DEF CheckSlug, Clear, Target
<1>4. /\ answer'[j] # "error" /\ pc'[j] # "commit" /\ checked'[j] = {}
      /\ locked'[j] # {} => Rename(j)
  BY DEF SlugInv, TypeOK, LocksAreRenames, CheckSlug, End, Go, FoundFree, AfterCheck
<1>5. pc'[j] \in {"query", "lock", "write"} => Clear(j)
  BY FreeIsClear DEF CheckSlug, End, FoundFree, Go, SlugInv, TypeOK
<1>6. pc'[j] \in {"query", "lock"} => Rename(j)
  BY DEF CheckSlug, End, FoundFree, Go, AfterCheck, SlugInv, TypeOK
<1> QED
  BY <1>1, <1>2, <1>3, <1>4, <1>5, <1>6, MoveKeeps

LEMMA SearchKeeps ==
  ASSUME SlugInv, NEW j \in Job, SearchSlug(j)
  PROVE  SlugInv'
<1>1. TypeOK'
  <2>1. order[j].base \in Base
    BY SlugAssumption DEF SlugInv, TypeOK
  <2>2. suffix[j] \in 0..MaxSuffix /\ suffix[j] + 1 \in Nat
    BY SlugAssumption DEF SlugInv, TypeOK, SearchSlug
  <2>3. Candidate(order[j].base, suffix[j]) \in Slug
    BY <2>1, <2>2, SlugAssumption
  <2> QED
    BY <2>2, <2>3 DEF SlugInv, TypeOK, SearchSlug, Go, FoundFree
<1>2. OnlyMoves(j)
  BY DEF SlugInv, TypeOK, SearchSlug, Go, FoundFree, OnlyMoves
<1>3. pc'[j] = "search" \/ (pc'[j] = "write" /\ Clear(j)')
  BY FreeIsClear DEF SearchSlug, Go, FoundFree, SlugInv, TypeOK, Clear, Target
<1>4. answer'[j] = "none" /\ locked'[j] = locked[j] /\ checked'[j] = {}
  BY DEF SearchSlug, Go, FoundFree, SlugInv, TypeOK, LocksAreRenames
<1> QED
  BY <1>1, <1>2, <1>3, <1>4, MoveKeeps DEF SlugInv, LocksAreRenames

\* A renaming that waits for its rows, or has them all.
LEMMA LockKeeps ==
  ASSUME SlugInv, NEW j \in Job, StartQuery(j) \/ LockRow(j) \/ BeginUpdate(j)
  PROVE  SlugInv'
<1>1. NextRow(j) \subseteq Row
  BY TargetTypes DEF SlugInv, TypeOK, NextRow, Row
<1>2. TypeOK'
  <2>1. CASE StartQuery(j)
    BY <2>1, TargetTypes DEF SlugInv, TypeOK, StartQuery, Go
  <2>2. CASE LockRow(j)
    BY <2>2, <1>1 DEF SlugInv, TypeOK, LockRow
  <2>3. CASE BeginUpdate(j)
    BY <2>3 DEF SlugInv, TypeOK, BeginUpdate, End, Go
  <2> QED
    BY <2>1, <2>2, <2>3
<1>3. OnlyMoves(j)
  BY DEF SlugInv, TypeOK, StartQuery, LockRow, BeginUpdate, End, Go, OnlyMoves
<1>4. /\ Clear(j)' <=> Clear(j)
      /\ wanted'[j] = wanted[j] /\ taken'[j] = taken[j]
  BY DEF StartQuery, LockRow, BeginUpdate, Clear, Target
<1>5. /\ pc[j] \in {"query", "lock"}
      /\ pc'[j] \in {"lock", "write", "done"}
      /\ answer'[j] # "error" /\ checked'[j] = {}
  BY DEF SlugInv, TypeOK, LocksAreRenames, StartQuery, LockRow, BeginUpdate, End, Go
<1> QED
  BY <1>2, <1>3, <1>4, <1>5, MoveKeeps DEF SlugInv, FoundIsFree, LocksAreRenames

-----------------------------------------------------------------------------
\* The unique index lets a job write when nobody has its slug, not even a job
\* that is about to give it up, and nobody else has written it.
LEMMA WriteKeeps ==
  ASSUME SlugInv, NEW j \in Job, WriteSlug(j)
  PROVE  SlugInv'
<1>1. TypeOK'
  BY DEF SlugInv, TypeOK, WriteSlug, End, Go
<1>2. OnlyMoves(j)
  BY DEF SlugInv, TypeOK, WriteSlug, End, Go, OnlyMoves
<1>3. /\ Clear(j)' <=> Clear(j)
      /\ wanted'[j] = wanted[j] /\ taken'[j] = taken[j]
  BY DEF WriteSlug, Clear, Target
<1>4. CASE Conflict(j) /\ End(j, "error")
  <2>1. wanted[j] \in taken[j]
    BY <1>4 DEF Conflict, WriteSlug, SlugInv, FoundIsFree, Clear
  <2>2. pc'[j] = "done" /\ locked'[j] = {} /\ checked'[j] = {}
    BY <1>4 DEF SlugInv, TypeOK, End
  <2> QED
    BY <1>1, <1>2, <1>3, <2>1, <2>2, MoveKeeps
<1>5. CASE /\ ~Conflict(j) /\ \A k \in Job : ~WaitsForSlug(j, k)
           /\ Go(j, "commit") /\ UNCHANGED <<locked, checked>>
  <2>1. Clear(j)
    BY <1>5 DEF Conflict, WaitsForSlug, WriteSlug, Clear
  <2>2. \A k \in Job \ {j} : pc[k] = "commit" => wanted[k] # wanted[j]
    BY <1>5 DEF WaitsForSlug, WriteSlug
  <2>3. pc'[j] = "commit" /\ answer'[j] = "none" /\ locked'[j] = locked[j]
    BY <1>5 DEF SlugInv, TypeOK, WriteSlug, Go
  <2> QED
    BY <1>1, <1>2, <1>3, <2>1, <2>2, <2>3, MoveKeeps DEF SlugInv, LocksAreRenames
<1> QED
  BY <1>4, <1>5 DEF WriteSlug

\* A circle in which somebody wants a row is one in which a renaming has it: a
\* creation that has rows is checking others, which only renamings can have.  If
\* nobody wants a row everybody wants a slug that is some product's.
LEMMA VictimKeeps ==
  ASSUME SlugInv, NEW j \in Job, DeadlockVictim(j)
  PROVE  SlugInv'
<1> PICK C \in SUBSET Job :
         /\ j \in C /\ Deadlocked(C)
         /\ blockers' = [blockers EXCEPT ![j] = {k \in C : \E i \in C : WaitsForRow(i, k)}]
  BY DEF DeadlockVictim
<1>1. TypeOK'
  BY DEF SlugInv, TypeOK, DeadlockVictim, End
<1>2. OnlyMoves(j)
  BY DEF SlugInv, TypeOK, DeadlockVictim, End, OnlyMoves
<1>3. pc'[j] = "done" /\ locked'[j] = {} /\ checked'[j] = {}
  BY DEF SlugInv, TypeOK, DeadlockVictim, End
<1>4. wanted[j] \in taken[j] \/ \E k \in blockers'[j] : Rename(k)
  <2>1. CASE \E i, k \in C : WaitsForRow(i, k)
    <3>1. PICK i \in C, k \in C : WaitsForRow(i, k)
      BY <2>1
    <3>2. CASE locked[k] # {}
      BY <3>1, <3>2 DEF SlugInv, TypeOK, LocksAreRenames
    <3>3. CASE locked[k] = {}
      <4>1. pc[k] = "commit"
        BY <3>1, <3>3 DEF WaitsForRow, HasLock, SlugInv, LocksAreRenames
      <4>2. PICK l \in C : WaitsFor(k, l)
        BY DEF Deadlocked
      <4>3. WaitsForRow(k, l) /\ locked[l] # {}
        BY <4>1, <4>2 DEF WaitsFor, WaitsForSlug, WaitsForRow
      <4> QED
        BY <4>3 DEF SlugInv, TypeOK, LocksAreRenames
    <3> QED
      BY <3>2, <3>3
  <2>2. CASE \A i, k \in C : ~WaitsForRow(i, k)
    <3>1. \A k \in C : \E l \in C : WaitsForSlug(k, l)
      BY <2>2 DEF Deadlocked, WaitsFor
    <3>2. \A k \in C : pc[k] = "write"
      BY <3>1 DEF WaitsForSlug
    <3>3. ~Clear(j)
      BY <3>1, <3>2 DEF WaitsForSlug, Clear
    <3> QED
      BY <3>2, <3>3 DEF SlugInv, FoundIsFree
  <2> QED
    BY <2>1, <2>2
<1>5. wanted'[j] = wanted[j] /\ taken'[j] = taken[j]
  BY DEF DeadlockVictim
<1> QED
  BY <1>1, <1>2, <1>3, <1>4, <1>5, MoveKeeps

LEMMA AbortKeeps ==
  ASSUME SlugInv, NEW j \in Job, Abort(j)
  PROVE  SlugInv'
<1>1. TypeOK'
  BY DEF SlugInv, TypeOK, Abort, End
<1>2. OnlyMoves(j)
  BY DEF SlugInv, TypeOK, Abort, End, OnlyMoves
<1>3. pc'[j] = "done" /\ answer'[j] = "lost" /\ locked'[j] = {} /\ checked'[j] = {}
  BY DEF SlugInv, TypeOK, Abort, End
<1> QED
  BY <1>1, <1>2, <1>3, MoveKeeps

LEMMA ReferenceKeeps ==
  ASSUME SlugInv, NEW j \in Job, CheckReference(j)
  PROVE  SlugInv'
<1>1. Unchecked(j) \subseteq Row
  <2>1. order[j].category \subseteq Category
    BY SlugAssumption DEF SlugInv, TypeOK
  <2> QED
    BY <2>1, TargetTypes DEF SlugInv, Unchecked, References, Row
<1>2. TypeOK'
  BY <1>1 DEF SlugInv, TypeOK, CheckReference
<1>3. OnlyMoves(j)
  BY DEF SlugInv, TypeOK, CheckReference, OnlyMoves
<1>4. Clear(j)' <=> Clear(j)
  BY DEF CheckReference, Clear, Target
<1>5. pc[j] = "commit" /\ UNCHANGED <<pc, answer, wanted, taken, locked, blockers>>
  BY DEF CheckReference
<1>6. /\ Clear(j) /\ \A k \in Job \ {j} : pc[k] = "commit" => wanted[k] # wanted[j]
      /\ answer[j] = "none" /\ (locked[j] # {} => Rename(j))
  BY <1>5 DEF SlugInv, TypeOK, WrittenIsHeld, LocksAreRenames
<1>7. pc'[j] = "commit" /\ answer'[j] = "none" /\ wanted'[j] = wanted[j] /\ locked'[j] = locked[j]
  BY <1>5, <1>6
<1> QED
  BY <1>2, <1>3, <1>4, <1>6, <1>7, MoveKeeps

LEMMA CommitKeeps ==
  ASSUME SlugInv, NEW j \in Job, Commit(j)
  PROVE  SlugInv'
<1>1. Target(j) \in Product
  BY TargetTypes DEF SlugInv
<1>2. TypeOK'
  <2>1. order[j].category \subseteq Category
    BY SlugAssumption DEF SlugInv, TypeOK
  <2>2. categoryOf' \in [Product -> Category]
    BY <1>1, <2>1 DEF SlugInv, TypeOK, Commit
  <2>3. wanted[j] \in Slug /\ taken' \in [Job -> SUBSET Slug] /\ disturbed' \subseteq Job
    BY DEF SlugInv, TypeOK, Commit
  <2>4. slugOf' \in [Product -> Slug \union {NoSlug}]
    BY <1>1, <2>3 DEF SlugInv, TypeOK, Commit
  <2>5. /\ UNCHANGED <<order, wanted, suffix, joined, blockers>>
        /\ pc' = [pc EXCEPT ![j] = "done"] /\ answer' = [answer EXCEPT ![j] = "ok"]
        /\ locked' = [locked EXCEPT ![j] = {}] /\ checked' = [checked EXCEPT ![j] = {}]
    BY DEF Commit, End
  <2> QED
    BY <2>2, <2>3, <2>4, <2>5 DEF SlugInv, TypeOK
<1>3. \A p \in Product : slugOf'[p] = IF p = Target(j) THEN wanted[j] ELSE slugOf[p]
  BY <1>1 DEF SlugInv, TypeOK, Commit
<1>4. Clear(j)
  BY DEF Commit, SlugInv, WrittenIsHeld
<1>5. SlugsUnique'
  BY <1>3, <1>4 DEF SlugInv, SlugsUnique, Clear
<1>6. \A k \in Job : /\ wanted'[k] = wanted[k] /\ Target(k)' = Target(k)
                     /\ blockers'[k] = blockers[k] /\ (Rename(k)' <=> Rename(k))
  BY DEF Commit, Target, Rename
<1>7. \A k \in Job \ {j} : /\ pc'[k] = pc[k] /\ answer'[k] = answer[k]
                           /\ taken'[k] = taken[k] \union {wanted[j]}
                           /\ locked'[k] = locked[k] /\ checked'[k] = checked[k]
  BY DEF SlugInv, TypeOK, Commit, End
<1>8. \A k \in Job : wanted[k] # wanted[j] /\ Clear(k) => Clear(k)'
  BY <1>3, <1>6 DEF Clear
<1>9. pc'[j] = "done" /\ answer'[j] = "ok" /\ locked'[j] = {} /\ checked'[j] = {}
  BY DEF SlugInv, TypeOK, Commit, End
<1>10. WrittenIsHeld'
  BY <1>6, <1>7, <1>8, <1>9 DEF SlugInv, WrittenIsHeld, Commit
<1>11. FoundIsFree' /\ LocksAreRenames'
  BY <1>6, <1>7, <1>8, <1>9 DEF SlugInv, FoundIsFree, LocksAreRenames
<1>12. ErrorsOvertaken'
  BY <1>6, <1>7, <1>9 DEF SlugInv, TypeOK, ErrorsOvertaken
<1> QED
  BY <1>2, <1>5, <1>10, <1>11, <1>12 DEF SlugInv

-----------------------------------------------------------------------------
LEMMA StepKeeps == SlugInv /\ [Next]_vars => SlugInv'
<1> SUFFICES ASSUME SlugInv, [Next]_vars
             PROVE  SlugInv'
  OBVIOUS
<1>1. CASE Next
  BY <1>1, CheckKeeps, SearchKeeps, LockKeeps, WriteKeeps, VictimKeeps, ReferenceKeeps,
     CommitKeeps, AbortKeeps DEF Next, Step
<1>2. CASE UNCHANGED vars
  BY <1>2 DEF vars, rows, SlugInv, TypeOK, SlugsUnique, WrittenIsHeld, FoundIsFree,
     LocksAreRenames, ErrorsOvertaken, Clear, Target, Rename
<1> QED
  BY <1>1, <1>2

\* No two products ever share a slug, however many requests check and write it
\* at the same time (validate_slug, _generate_unique_slug, the unique index).
THEOREM UniqueSlugs == Spec => []SlugsUnique
<1>1. SlugInv => SlugsUnique
  BY DEF SlugInv
<1> QED
  BY InitSlugs, StepKeeps, <1>1, PTL DEF Spec

\* An uncaught IntegrityError, or the abort of a deadlock, hits only a request
\* whose slug another one committed after it was found free, or one whose circle
\* of waits goes through rows that a renaming has locked (update_product's product,
\* seller and category): creations alone, and checks in time, cannot be aborted.
THEOREM OnlyOvertakenFail == Spec => []ErrorsOvertaken
<1>1. SlugInv => ErrorsOvertaken
  BY DEF SlugInv
<1> QED
  BY InitSlugs, StepKeeps, <1>1, PTL DEF Spec

\* Every variable of the allocation keeps its type.
THEOREM SlugTypes == Spec => []TypeOK
<1>1. SlugInv => TypeOK
  BY DEF SlugInv
<1> QED
  BY InitSlugs, StepKeeps, <1>1, PTL DEF Spec

-----------------------------------------------------------------------------
\* The search.  While nobody else commits, every candidate it has left behind is
\* some other product's: the product to be created has no slug that could be met.
Undisturbed(j) == order[j].kind = "title" /\ j \notin disturbed /\ pc[j] # "done"

Searched(j) ==
  /\ slugOf[Target(j)] = NoSlug
  /\ suffix[j] \in Nat \ {0}
  /\ wanted[j] = Candidate(order[j].base, suffix[j] - 1)
  /\ \A i \in 0..(suffix[j] - 2) : ~Free(j, i)
  /\ pc[j] # "search" => Free(j, suffix[j] - 1)

SearchInv ==
  /\ SlugInv
  /\ \A j \in Job : order[j].kind = "title" => pc[j] \notin {"check", "query", "lock"}
  /\ \A j \in Job : Undisturbed(j) => Searched(j)

LEMMA InitSearch == Init => SearchInv
<1> SUFFICES ASSUME Init PROVE SearchInv
  OBVIOUS
<1>1. \A j \in Job : order[j].kind = "title" => pc[j] = "search"
  BY DEF Init
<1>2. ASSUME NEW j \in Job, order[j].kind = "title"
      PROVE  Searched(j)
  <2>1. slugOf[Target(j)] = NoSlug
    BY <1>2, SlugAssumption DEF Init, Target
  <2>2. suffix[j] = 1 /\ wanted[j] = Candidate(order[j].base, 0)
    BY <1>2 DEF Init
  <2> QED
    BY <1>1, <1>2, <2>1, <2>2 DEF Searched
<1> QED
  BY <1>1, <1>2, InitSlugs DEF SearchInv, Undisturbed

\* A turn of the loop by the job itself.
LEMMA TurnSearches ==
  ASSUME SearchInv, NEW j \in Job, SearchSlug(j), Undisturbed(j)'
  PROVE  Searched(j)'
<1>1. TypeOK /\ Searched(j)
  BY DEF SearchInv, SlugInv, TypeOK, SearchSlug, Undisturbed
<1>2. \A n \in Int : Free(j, n)' <=> Free(j, n)
  BY DEF SearchSlug, Free, Target
<1>3. UNCHANGED <<order, slugOf>> /\ Target(j)' = Target(j)
  BY DEF SearchSlug, Target
<1>4. ~Rename(j)
  BY <1>3 DEF Undisturbed, Rename
<1>5. CASE Exists(j)
  <2>1. PICK p \in Product : slugOf[p] = wanted[j]
    BY <1>5 DEF Exists
  <2>2. p # Target(j)
    BY <1>1, <2>1, SlugAssumption DEF Searched, TypeOK
  <2>3. ~Free(j, suffix[j] - 1)
    BY <1>1, <2>1, <2>2 DEF Searched, Free
  <2>4. suffix'[j] = suffix[j] + 1 /\ wanted'[j] = Candidate(order[j].base, suffix[j])
    BY <1>1, <1>5 DEF SearchSlug, TypeOK
  <2>5. pc'[j] = "search"
    BY <1>5 DEF SearchSlug
  <2>6. \A i \in 0..(suffix[j] - 1) : ~Free(j, i)
    BY <1>1, <2>3 DEF Searched
  <2> QED
    BY <1>1, <1>2, <1>3, <2>4, <2>5, <2>6 DEF Searched
<1>6. CASE ~Exists(j)
  <2>1. UNCHANGED <<suffix, wanted>>
    BY <1>6 DEF SearchSlug
  <2>2. Free(j, suffix[j] - 1)
    BY <1>1, <1>4, <1>6 DEF Searched, Free, Exists
  <2> QED
    BY <1>1, <1>2, <1>3, <2>1, <2>2 DEF Searched
<1> QED
  BY <1>5, <1>6

\* Every other step leaves the search of j where it was, unless it disturbs j.
LEMMA OthersLeaveSearch ==
  ASSUME SearchInv, NEW k \in Job, Step(k) \/ Abort(k), NEW j \in Job,
         ~(k = j /\ SearchSlug(j)), Undisturbed(j)'
  PROVE  Searched(j)'
<1>1. UNCHANGED <<order, slugOf>> /\ suffix'[j] = suffix[j] /\ wanted'[j] = wanted[j]
  BY DEF SearchInv, SlugInv, TypeOK, Undisturbed, Step, Abort, CheckSlug, SearchSlug,
     StartQuery, LockRow, BeginUpdate, WriteSlug, CheckReference, DeadlockVictim, Commit,
     End, Go, FoundFree, AfterCheck
<1>2. Undisturbed(j) /\ (pc'[j] # "search" => pc[j] # "search")
  BY DEF SearchInv, SlugInv, TypeOK, Undisturbed, Step, Abort, CheckSlug, SearchSlug,
     StartQuery, LockRow, BeginUpdate, WriteSlug, CheckReference, DeadlockVictim, Commit,
     End, Go, FoundFree, AfterCheck
<1>3. Searched(j)
  BY <1>2 DEF SearchInv
<1>4. Target(j)' = Target(j) /\ \A n \in Int : Free(j, n)' <=> Free(j, n)
  BY <1>1 DEF Target, Free
<1> QED
  BY <1>1, <1>2, <1>3, <1>4 DEF Searched

LEMMA StepSearches == SearchInv /\ [Next]_vars => SearchInv'
<1> SUFFICES ASSUME SearchInv, [Next]_vars
             PROVE  SearchInv'
  OBVIOUS
<1>1. SlugInv'
  BY StepKeeps DEF SearchInv
<1>2. CASE Next
  <2>1. PICK k \in Job : Step(k) \/ Abort(k)
    BY <1>2 DEF Next
  <2>2. ASSUME NEW j \in Job, order'[j].kind = "title"
        PROVE  pc'[j] \notin {"check", "query", "lock"}
    BY <2>1, <2>2 DEF SearchInv, SlugInv, TypeOK, Step, Abort, CheckSlug, SearchSlug,
       StartQuery, LockRow, BeginUpdate, WriteSlug, CheckReference, DeadlockVictim, Commit,
     End, Go, FoundFree, AfterCheck, Rename
  <2>3. \A j \in Job : Undisturbed(j)' => Searched(j)'
    BY <2>1, TurnSearches, OthersLeaveSearch
  <2> QED
    BY <1>1, <2>2, <2>3 DEF SearchInv
<1>3. CASE UNCHANGED vars
  BY <1>1, <1>3 DEF vars, rows, SearchInv, Undisturbed, Searched, Free, Target
<1> QED
  BY <1>2, <1>3

\* A product created from a title gets the first candidate nobody else has, unless
\* another request committed a slug meanwhile (_generate_unique_slug).
THEOREM TitlesGetFirstFree == Spec => []FirstFreeSlug
<1>1. SearchInv => FirstFreeSlug
  <2> SUFFICES ASSUME SearchInv, NEW j \in Job \ disturbed, order[j].kind = "title",
                      pc[j] = "commit"
               PROVE  \E n \in 0..suffix[j] : /\ wanted[j] = Candidate(order[j].base, n)
                                              /\ Free(j, n)
                                              /\ \A i \in 0..(n - 1) : ~Free(j, i)
    BY DEF FirstFreeSlug
  <2>1. Searched(j)
    BY DEF SearchInv, Undisturbed
  <2>2. suffix[j] - 1 \in 0..suffix[j] /\ (suffix[j] - 1) - 1 = suffix[j] - 2
    BY <2>1 DEF Searched
  <2> QED
    BY <2>1, <2>2 DEF Searched
<1> QED
  BY InitSearch, StepSearches, <1>1, PTL DEF Spec
=============================================================================
