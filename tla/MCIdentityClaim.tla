----------------------------- MODULE MCIdentityClaim -----------------------------
(* A copied person with a profile, posts and reviews, with posts and rows of  *)
(* a table the policy omits, or of whom only reviews are left, and objects in *)
(* two buckets; and policies with one mistake.                                *)
EXTENDS IdentityClaim, TLC

People == {{"profile", "posts", "reviews"}, {"posts", "stray"}, {"reviews"}}
Places == <<"covers", "photos">>
Same == Permutations(Accounts)

MCNames ==
  {"public", "profile", "posts", "reviews", "id", "owner", "plan", "theme",
   "data", "author"}
MCEnvironment == [v \in {"MAIL", "SUBJECT"} |-> IF v = "MAIL" THEN "ann" ELSE None]

Reference(table, required, strategy) ==
  [schema |-> "public", table |-> table, column |-> "owner",
   required |-> required, strategy |-> strategy]

Asset(bucket) ==
  [bucket |-> bucket, prefix |-> <<"p0">>, rewritePath |-> TRUE]

Entry ==
  [unknown |-> {}, name |-> "ann", placeholder |-> "p0", legacy |-> None,
   matcher |-> [type |-> "verified-email", providers |-> <<"email", "google">>,
                variable |-> "MAIL", approved |-> "ann"],
   references |-> <<Reference("profile", None, None), Reference("posts", TRUE, None),
                    Reference("reviews", FALSE, "preserve-audit")>>,
   jsonReferences |-> <<[schema |-> "public", table |-> "posts", column |-> "data",
                         path |-> <<"author">>]>>,
   signupDefaults |-> <<[schema |-> "public", table |-> "profile", column |-> "owner",
                         values |-> [c \in {"plan"} |-> [kind |-> "exact"]],
                         ignored |-> <<"theme">>]>>,
   pathReferences |-> <<[schema |-> "public", table |-> "posts", column |-> "data",
                         valueType |-> "jsonb"]>>,
   assets |-> <<Asset("covers"), Asset("photos")>>, tokenHook |-> None]

Legacy ==
  [Entry EXCEPT !.matcher = None,
     !.legacy = [provider |-> "google", variable |-> "MAIL", approved |-> "ann"]]

BySubject ==
  [Entry EXCEPT !.matcher = [type |-> "provider-subject", providers |-> <<"google">>,
                             variable |-> "SUBJECT", approved |-> "ann"]]

PolicyOf(entries) == [version |-> 1, identities |-> entries]
MCPolicy == PolicyOf(<<Entry>>)

\* Entries with one mistake.
Broken ==
  {[Entry EXCEPT !.unknown = {"note"}], [Entry EXCEPT !.name = "Ann"],
   [Entry EXCEPT !.matcher = None], [Legacy EXCEPT !.matcher = Entry.matcher],
   [Entry EXCEPT !.matcher.providers = <<>>],
   [Entry EXCEPT !.matcher.providers = <<"google", "google">>],
   [BySubject EXCEPT !.matcher.providers = <<"email">>],
   [Entry EXCEPT !.placeholder = "ann"],
   [Entry EXCEPT !.references[1].strategy = "keep"],
   [Entry EXCEPT !.jsonReferences[1].path = <<>>],
   [Entry EXCEPT !.signupDefaults[1].ignored = <<"plan">>],
   [Entry EXCEPT !.signupDefaults[1].ignored = <<"owner">>],
   [Entry EXCEPT !.signupDefaults[1].table = "stray"],
   [Entry EXCEPT !.signupDefaults[1].column = "id"],
   [Entry EXCEPT !.signupDefaults[1].values =
      [c \in {"plan"} |-> [kind |-> "pattern", anchored |-> FALSE, length |-> 9]]],
   [Entry EXCEPT !.pathReferences[1].valueType = "json"],
   [Entry EXCEPT !.assets[1].prefix = <<"p0", "..">>],
   [Entry EXCEPT !.assets[1].prefix = <<"covers">>]}

ASSUME PoliciesAreSorted ==
  /\ \A e \in Broken : ~IdentityPolicyValid(PolicyOf(<<e>>))
  /\ ~IdentityPolicyValid(PolicyOf(<<Entry, Legacy>>))
  /\ Plannable(PolicyOf(<<Legacy>>), "ann")
  /\ IdentityPolicyValid(PolicyOf(<<BySubject>>))
  /\ ~Plannable(PolicyOf(<<BySubject>>), "ann") /\ ~Plannable(MCPolicy, "bob")

=============================================================================
