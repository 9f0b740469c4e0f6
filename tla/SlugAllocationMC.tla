-------------------------- MODULE SlugAllocationMC --------------------------
(***************************************************************************)
(* Worlds of four requests: creations from equal and from colliding titles    *)
(* ("iPhone" and "iPhone 1") against a renaming; renamings that exchange the   *)
(* slugs of two products; and renamings that exchange categories while the     *)
(* same sellers create products there.                                        *)
(***************************************************************************)
EXTENDS SlugAllocation

CONSTANTS j1, j2, j3, j4, p, q, r, s, t, ann, bob, phones, cases

\* Slugs are <<base, suffix>>; "iphone" with suffix 1 is the slug of "iPhone 1".
MCCandidate(base, n) ==
  IF base = "iphone-1" THEN (IF n = 0 THEN "iphone-1" ELSE "iphone-1-1")
  ELSE CASE n = 0 -> "iphone" [] n = 1 -> "iphone-1" [] OTHER -> "iphone-2"

MCSlug == {"iphone", "iphone-1", "iphone-2", "iphone-1-1", "old", "new"}
MCInitialSlug == [x \in Product |-> CASE x = p -> "iphone" [] x = q -> "old"
                                      [] OTHER -> NoSlug]

MCSellerOf == [x \in Product |-> IF x \in {p, r, t} THEN ann ELSE bob]
MCInitialCategory == [x \in Product |-> IF x = q THEN cases ELSE phones]

Ask(kind, product, slug, base, category) ==
  [kind |-> kind, product |-> product, slug |-> slug, base |-> base, category |-> category]

Creations == [j \in Job |->
  CASE j = j1 -> Ask("title", r, "new", "iphone", {phones})
    [] j = j2 -> Ask("title", s, "new", "iphone-1", {phones})
    [] j = j3 -> Ask("create", t, "iphone-1", "iphone", {cases})
    [] OTHER  -> Ask("rename", p, "new", "iphone", {})]

Exchanges == [j \in Job |->
  CASE j = j1 -> Ask("rename", p, "new", "iphone", {})
    [] j = j2 -> Ask("rename", p, "iphone-2", "iphone", {})
    [] j = j3 -> Ask("rename", q, "new", "iphone", {})
    [] OTHER  -> Ask("rename", q, "iphone-2", "iphone", {})]

Categories == [j \in Job |->
  CASE j = j1 -> Ask("rename", p, "new", "iphone", {cases})
    [] j = j2 -> Ask("rename", q, "iphone-2", "iphone", {phones})
    [] j = j3 -> Ask("rename", p, "iphone", "iphone", {})
    [] OTHER  -> Ask("create", t, "new", "iphone", {cases})]

MCWorlds == {Creations, Exchanges, Categories}
=============================================================================
