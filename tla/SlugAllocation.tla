--------------------------- MODULE SlugAllocation ---------------------------
(***************************************************************************)
(* POST /products and the renaming of a product by PUT: the slug is checked  *)
(* or searched for by plain queries, then written; the unique index on       *)
(* Product.slug has the last word, at the write.                             *)
(*   create with a slug    check -> write -> commit                          *)
(*   create from a title   search (one query per candidate) -> write -> commit *)
(*   rename                check -> query -> lock -> write -> commit         *)
(* A rename locks the product, its seller and its category, row after row; a *)
(* creation, and a rename that changes the category too, want a FOR KEY SHARE *)
(* lock on what the written row refers to, at COMMIT.                         *)
(***************************************************************************)
EXTENDS Integers

CONSTANTS
  Job,              \* requests, each served by a thread of its own
  Product, Slug, Base,
  Seller, Category, SellerOf,
  Candidate(_, _),  \* (base, n): the slug of a title, then with "-1", "-2", ...
  MaxSuffix,        \* bound: the candidates a search may need
  Worlds,           \* what the jobs may ask: [Job -> [kind, product, slug, base, category]]
  InitialSlug,      \* of every product; NoSlug when it is still to be created
  InitialCategory,
  NoSlug

VARIABLES
  order,            \* what each job asks
  slugOf, categoryOf, \* committed slugs and categories
  pc, answer,
  wanted,           \* the slug a job tries
  suffix,           \* _generate_unique_slug's counter
  taken,            \* slugs others committed since the job found its own free
  disturbed,        \* jobs during which another one committed
  joined,           \* the category of the product when a rename's query began
  locked, checked,  \* rows a job has FOR UPDATE, and FOR KEY SHARE
  blockers          \* in the circle of waits a job was taken out of, who had a row
                    \* that another member wanted

rows == <<joined, locked, checked, categoryOf>>
vars == <<order, slugOf, pc, answer, wanted, suffix, taken, disturbed, rows, blockers>>

Row == Product \union Seller \union Category

ASSUME SlugAssumption ==
  /\ NoSlug \notin Slug
  /\ InitialSlug \in [Product -> Slug \union {NoSlug}]
  /\ \A p, q \in Product : InitialSlug[p] = InitialSlug[q] => p = q \/ InitialSlug[p] = NoSlug
  /\ MaxSuffix \in Nat
  /\ \A b \in Base, n \in 0..MaxSuffix : Candidate(b, n) \in Slug
  /\ Product \intersect (Seller \union Category) = {} /\ Seller \intersect Category = {}
  /\ SellerOf \in [Product -> Seller]
  /\ InitialCategory \in [Product -> Category]
  /\ Worlds \subseteq [Job -> [kind : {"create", "title", "rename"}, product : Product,
                               slug : Slug, base : Base, category : SUBSET Category]]
  \* A creation has a category, a rename may have one.
  /\ \A world \in Worlds, j \in Job :
       /\ \A c, d \in world[j].category : c = d
       /\ world[j].category = {} => world[j].kind = "rename"
  \* What is created has no slug yet.
  /\ \A world \in Worlds, j \in Job :
       world[j].kind # "rename" => InitialSlug[world[j].product] = NoSlug

Rename(j) == order[j].kind = "rename"
Target(j) == order[j].product

Init ==
  /\ order \in Worlds
  /\ slugOf = InitialSlug
  /\ categoryOf = InitialCategory
  /\ pc = [j \in Job |-> IF order[j].kind = "title" THEN "search" ELSE "check"]
  /\ answer = [j \in Job |-> "none"]
  /\ wanted = [j \in Job |-> IF order[j].kind = "title"
                             THEN Candidate(order[j].base, 0) ELSE order[j].slug]
  /\ suffix = [j \in Job |-> 1]
  /\ taken = [j \in Job |-> {}]
  /\ disturbed = {}
  /\ joined = [j \in Job |-> InitialCategory[Target(j)]]
  /\ locked = [j \in Job |-> {}]
  /\ checked = [j \in Job |-> {}]
  /\ blockers = [j \in Job |-> {}]

Go(j, stage) == pc' = [pc EXCEPT ![j] = stage] /\ UNCHANGED answer

\* The answer; the transaction, if there is one, ends with its locks.
End(j, code) ==
  /\ pc' = [pc EXCEPT ![j] = "done"]
  /\ answer' = [answer EXCEPT ![j] = code]
  /\ locked' = [locked EXCEPT ![j] = {}]
  /\ checked' = [checked EXCEPT ![j] = {}]

-----------------------------------------------------------------------------
\* The queries before the write.

\* filter(slug=...).exists(); a rename leaves its own product out.
Exists(j) == \E p \in Product : slugOf[p] = wanted[j] /\ (Rename(j) => p # Target(j))

FoundFree(j, stage) ==
  /\ taken' = [taken EXCEPT ![j] = {}]
  /\ Go(j, stage)
  /\ UNCHANGED <<locked, checked>>

AfterCheck(j) == IF Rename(j) THEN "query" ELSE "write"

\* Mutant: validate_slug is forgotten.
TrustSlug(j) ==
  /\ pc[j] = "check"
  /\ FoundFree(j, AfterCheck(j))
  /\ UNCHANGED <<order, slugOf, wanted, suffix, disturbed, joined, categoryOf, blockers>>

\* Mutant: a refusal is noted and the request goes on.
CheckSlugAndGoOn(j) ==
  /\ pc[j] = "check"
  /\ \/ /\ answer' = [answer EXCEPT ![j] = "refused"]
        /\ pc' = [pc EXCEPT ![j] = "write"]
        /\ UNCHANGED <<taken, locked, checked>>
     \/ ~Exists(j) /\ FoundFree(j, AfterCheck(j))
  /\ UNCHANGED <<order, slugOf, wanted, suffix, disturbed, joined, categoryOf, blockers>>

\* validate_slug, and the other validations, which may refuse for their own reasons.
CheckSlug(j) ==
  /\ pc[j] = "check"
  /\ \/ End(j, "refused") /\ UNCHANGED taken
     \/ ~Exists(j) /\ FoundFree(j, AfterCheck(j))
  /\ UNCHANGED <<order, slugOf, wanted, suffix, disturbed, joined, categoryOf, blockers>>

\* Mutant: the search forgets the candidate that starts it.
SkipBase(j) ==
  /\ pc[j] = "search" /\ suffix[j] <= MaxSuffix
  /\ IF Exists(j) \/ suffix[j] = 1
     THEN /\ wanted' = [wanted EXCEPT ![j] = Candidate(order[j].base, suffix[j])]
          /\ suffix' = [suffix EXCEPT ![j] = @ + 1]
          /\ UNCHANGED <<pc, answer, taken, locked, checked>>
     ELSE FoundFree(j, "write") /\ UNCHANGED <<wanted, suffix>>
  /\ UNCHANGED <<order, slugOf, disturbed, joined, categoryOf, blockers>>

\* Mutant: the counter is not advanced.
SearchSlugInPlace(j) ==
  /\ pc[j] = "search"
  /\ IF Exists(j)
     THEN /\ wanted' = [wanted EXCEPT ![j] = Candidate(order[j].base, suffix[j])]
          /\ UNCHANGED <<pc, answer, taken, locked, checked>>
     ELSE FoundFree(j, "write") /\ UNCHANGED wanted
  /\ UNCHANGED <<order, slugOf, suffix, disturbed, joined, categoryOf, blockers>>

\* One turn of the loop of _generate_unique_slug, inside the transaction.
SearchSlug(j) ==
  /\ pc[j] = "search" /\ suffix[j] <= MaxSuffix
  /\ IF Exists(j)
     THEN /\ wanted' = [wanted EXCEPT ![j] = Candidate(order[j].base, suffix[j])]
          /\ suffix' = [suffix EXCEPT ![j] = @ + 1]
          /\ UNCHANGED <<pc, answer, taken, locked, checked>>
     ELSE FoundFree(j, "write") /\ UNCHANGED <<wanted, suffix>>
  /\ UNCHANGED <<order, slugOf, disturbed, joined, categoryOf, blockers>>

-----------------------------------------------------------------------------
\* A rename's rows: SELECT ... FOR UPDATE of the product joined to its seller and
\* its category locks the three in this order.

StartQuery(j) ==
  /\ pc[j] = "query"
  /\ joined' = [joined EXCEPT ![j] = categoryOf[Target(j)]]
  /\ Go(j, "lock")
  /\ UNCHANGED <<order, slugOf, wanted, suffix, taken, disturbed, locked, checked,
                 categoryOf, blockers>>

NextRow(j) ==
  IF Target(j) \notin locked[j] THEN {Target(j)}
  ELSE IF SellerOf[Target(j)] \notin locked[j] THEN {SellerOf[Target(j)]}
  ELSE {joined[j]} \ locked[j]

HasLock(k, row) == row \in locked[k] \union checked[k]

LockRow(j) ==
  /\ pc[j] = "lock"
  /\ \E row \in NextRow(j) :
       /\ \A k \in Job \ {j} : ~HasLock(k, row)
       /\ locked' = [locked EXCEPT ![j] = @ \union {row}]
  /\ UNCHANGED <<order, slugOf, pc, answer, wanted, suffix, taken, disturbed, joined,
                 checked, categoryOf, blockers>>

\* The joined row is checked again: a product that has left the category is not
\* found.  Then owner and status are checked, and the UPDATE begins.
BeginUpdate(j) ==
  /\ pc[j] = "lock" /\ NextRow(j) = {}
  /\ \/ End(j, "refused")
     \/ /\ joined[j] = categoryOf[Target(j)]
        /\ Go(j, "write") /\ UNCHANGED <<locked, checked>>
  /\ UNCHANGED <<order, slugOf, wanted, suffix, taken, disturbed, joined, categoryOf,
                 blockers>>

-----------------------------------------------------------------------------
\* The write.

Writing(j) == pc[j] \in {"write", "commit"}

\* A row another job is changing (rename) frees its slug if that commits.
Leaving(k, p) == Rename(k) /\ Target(k) = p /\ Writing(k)

\* The unique index makes a job wait for the jobs that hold its slug uncommitted:
\* they have written it, or they are writing the row that has it.
WaitsForSlug(j, k) ==
  /\ k # j /\ pc[j] = "write"
  /\ \/ pc[k] = "commit" /\ wanted[k] = wanted[j]
     \/ \E p \in Product : slugOf[p] = wanted[j] /\ p # Target(j) /\ Leaving(k, p)

Conflict(j) ==
  \E p \in Product : /\ slugOf[p] = wanted[j] /\ p # Target(j)
                     /\ \A k \in Job : k # j => ~Leaving(k, p)

\* Mutant: Product.slug without unique=True.
WriteAnySlug(j) ==
  /\ pc[j] = "write" /\ Go(j, "commit")
  /\ UNCHANGED <<order, slugOf, wanted, suffix, taken, disturbed, rows, blockers>>

\* INSERT or UPDATE; IntegrityError is caught by nobody and answers 500.
WriteSlug(j) ==
  /\ pc[j] = "write"
  /\ \/ Conflict(j) /\ End(j, "error")
     \/ /\ ~Conflict(j) /\ \A k \in Job : ~WaitsForSlug(j, k)
        /\ Go(j, "commit") /\ UNCHANGED <<locked, checked>>
  /\ UNCHANGED <<order, slugOf, wanted, suffix, taken, disturbed, joined, categoryOf,
                 blockers>>

-----------------------------------------------------------------------------
\* COMMIT: the foreign keys of the new row, or the changed one, are checked.

References(j) ==
  IF Rename(j) THEN order[j].category \ {categoryOf[Target(j)]}
  ELSE {SellerOf[Target(j)]} \union order[j].category

Unchecked(j) == References(j) \ checked[j]

CheckReference(j) ==
  /\ pc[j] = "commit"
  /\ \E row \in Unchecked(j) :
       /\ \A k \in Job \ {j} : row \notin locked[k]
       /\ checked' = [checked EXCEPT ![j] = @ \union {row}]
  /\ UNCHANGED <<order, slugOf, pc, answer, wanted, suffix, taken, disturbed, joined,
                 locked, categoryOf, blockers>>

Commit(j) ==
  /\ pc[j] = "commit" /\ Unchecked(j) = {}
  /\ slugOf' = [slugOf EXCEPT ![Target(j)] = wanted[j]]
  /\ IF order[j].category = {} THEN UNCHANGED categoryOf
     ELSE \E c \in order[j].category : categoryOf' = [categoryOf EXCEPT ![Target(j)] = c]
  /\ End(j, "ok")
  /\ taken' = [k \in Job |-> IF k = j THEN taken[k] ELSE taken[k] \union {wanted[j]}]
  /\ disturbed' = disturbed \union {k \in Job : k # j /\ pc[k] # "done"}
  /\ UNCHANGED <<order, wanted, suffix, joined, blockers>>

-----------------------------------------------------------------------------
\* Waits and deaths.

WaitsForRow(j, k) ==
  /\ k # j
  /\ \/ pc[j] = "lock" /\ \E row \in NextRow(j) : HasLock(k, row)
     \/ pc[j] = "commit" /\ \E row \in Unchecked(j) : row \in locked[k]

WaitsFor(j, k) == WaitsForSlug(j, k) \/ WaitsForRow(j, k)

Deadlocked(C) == C # {} /\ \A j \in C : \E k \in C : WaitsFor(j, k)

\* PostgreSQL aborts a member of a circle of waits (500).
DeadlockVictim(j) ==
  /\ pc[j] \in {"lock", "write", "commit"}
  /\ \E C \in SUBSET Job :
       /\ j \in C /\ Deadlocked(C)
       /\ \A D \in SUBSET C : Deadlocked(D) => D = C
       /\ blockers' = [blockers EXCEPT ![j] = {k \in C : \E i \in C : WaitsForRow(i, k)}]
  /\ End(j, "error")
  /\ UNCHANGED <<order, slugOf, wanted, suffix, taken, disturbed, joined, categoryOf>>

\* The thread dies with its transaction open: whoever waits for it goes on.
Abort(j) ==
  /\ pc[j] \in {"lock", "write", "commit"}
  /\ End(j, "lost")
  /\ UNCHANGED <<order, slugOf, wanted, suffix, taken, disturbed, joined, categoryOf,
                 blockers>>

Step(j) ==
  \/ CheckSlug(j) \/ SearchSlug(j) \/ StartQuery(j) \/ LockRow(j) \/ BeginUpdate(j)
  \/ WriteSlug(j) \/ CheckReference(j) \/ Commit(j) \/ DeadlockVictim(j)

Next == \E j \in Job : Step(j) \/ Abort(j)

Spec == Init /\ [][Next]_vars

\* Threads run, and PostgreSQL wakes the waiters of a transaction that ended.
FairSpec == Spec /\ \A j \in Job : WF_vars(Step(j))

-----------------------------------------------------------------------------
TypeOK ==
  /\ order \in Worlds
  /\ slugOf \in [Product -> Slug \union {NoSlug}]
  /\ categoryOf \in [Product -> Category]
  /\ pc \in [Job -> {"check", "search", "query", "lock", "write", "commit", "done"}]
  /\ answer \in [Job -> {"none", "ok", "refused", "error", "lost"}]
  /\ wanted \in [Job -> Slug]
  /\ suffix \in [Job -> Nat]
  /\ taken \in [Job -> SUBSET Slug]
  /\ disturbed \subseteq Job
  /\ joined \in [Job -> Category]
  /\ locked \in [Job -> SUBSET Row] /\ checked \in [Job -> SUBSET Row]
  /\ blockers \in [Job -> SUBSET Job]
  /\ \A j \in Job : answer[j] = "none" <=> pc[j] # "done"

\* No two products share a slug, whatever was checked when: /products/<slug> and
\* the search for a free candidate rely on it.
SlugsUnique ==
  \A p, q \in Product : slugOf[p] = slugOf[q] /\ slugOf[p] # NoSlug => p = q

\* A creation or a renaming is answered 500 only if another request committed its
\* slug between the query that found it free and the write, or if it was taken out
\* of a circle of waits in which another member wants a row that a renaming has:
\* creations among themselves never wait in a circle, and a circle of waits for
\* slugs alone is one of slugs that others took.
ErrorsOvertaken ==
  \A j \in Job : answer[j] = "error" =>
    wanted[j] \in taken[j] \/ \E k \in blockers[j] : Rename(k)

Free(j, n) == \A p \in Product \ {Target(j)} : slugOf[p] # Candidate(order[j].base, n)

\* A product created from a title while nobody else commits gets the first free
\* candidate of the title.
FirstFreeSlug ==
  \A j \in Job \ disturbed : order[j].kind = "title" /\ pc[j] = "commit" =>
    \E n \in 0..suffix[j] : /\ wanted[j] = Candidate(order[j].base, n)
                            /\ Free(j, n)
                            /\ \A i \in 0..(n - 1) : ~Free(j, i)

\* Every creation and every renaming is answered: the search ends, and nobody
\* waits for ever for a slug or a product.
EveryJobEnds == \A j \in Job : <>(pc[j] = "done")
=============================================================================
