----------------------------- MODULE MCSourceRefresh ----------------------------
(* Policies that differ in what their plan shows, in what it does not show,  *)
(* in their reader, and in being valid.                                      *)
EXTENDS SourceRefresh, TLC

CONSTANTS base, relisted, provided   \* the policies

Url == [protocol |-> "postgres", host |-> "db", port |-> None,
        database |-> "music"]

\* What the variables of the commands' environment are set to.
MCEnvironment ==
  [v \in {"ADMIN", "READER", "OWNER", "PREFIX", "URL", "TOKEN", "UNSET"} |->
     CASE v = "UNSET" -> None
       [] v \in {"ADMIN", "READER"} -> Url
       [] v = "URL" -> [protocol |-> "https", host |-> "storage", path |-> <<>>]
       [] OTHER -> "secret"]

MCVariables == DOMAIN MCEnvironment
MCDigests == {SourceTarget(Url), AssetEndpoint(MCEnvironment["URL"])}
MCIdentifiers ==
  {"reader", "owner", "group", "export", "public", "ledger", "ledger2",
   "version", "name", "statements", "songs", "albums", "id", "user"}

Ledger(table) ==
  [schema |-> "public", table |-> table, version |-> "version", name |-> "name",
   statements |-> "statements"]

Private == [kind |-> "approved-owner", column |-> "user", value |-> "OWNER"]
Public == [kind |-> "approved-public", column |-> None, value |-> None]

Export(table, scope) ==
  [schema |-> "public", table |-> table, view |-> table, targetSchema |-> None,
   targetTable |-> table, columns |-> <<"id", "user">>, orderBy |-> <<"id">>,
   definition |-> None, scope |-> scope]

Managing ==
  [mode |-> None, role |-> "reader", ownerRole |-> "owner", minutes |-> 60,
   memberships |-> None, connection |-> None,
   credentialFile |-> <<".rehearsal", "secrets", "source">>]

Objects ==
  <<[bucket |-> "covers", prefix |-> None, variable |-> "PREFIX",
     rights |-> "approved-owner", mapping |-> "covers"]>>

ObjectReader ==
  [endpoint |-> AssetEndpoint(MCEnvironment["URL"]), url |-> "URL",
   token |-> "TOKEN", limits |-> <<1, 1, 1>>]

Base ==
  [unknown |-> {}, version |-> 1, target |-> SourceTarget(Url),
   administrator |-> "ADMIN", reader |-> Managing, exportSchema |-> "export",
   ledger |-> Ledger("ledger"), relations |-> <<Export("songs", Private)>>,
   assets |-> Objects, assetReader |-> ObjectReader]

OtherViews ==
  [Base EXCEPT !.relations = <<Export("songs", Private), Export("albums", Public)>>]
OtherLedger == [Base EXCEPT !.ledger = Ledger("ledger2")]

Provided ==
  [Base EXCEPT !.administrator = None, !.assets = None, !.assetReader = None,
     !.reader = [Managing EXCEPT !.mode = "external", !.ownerRole = None,
                   !.memberships = <<"group">>, !.connection = "READER"],
     !.relations = <<[Export("songs", Public) EXCEPT
                        !.definition = SourceTarget(Url)]>>]

\* The login that the provided policy reviews.
Reads(columns) ==
  {[on |-> "column", of |-> c, right |-> "SELECT"] : c \in columns}

Group ==
  [role |-> "group", login |-> FALSE, attributes |-> {}, admin |-> FALSE,
   inherit |-> TRUE, set |-> FALSE, memberOf |-> {}]

Conforming ==
  [role |-> "reader", login |-> TRUE, attributes |-> {}, expiresIn |-> 60,
   memberships |-> <<Group>>, privileges |-> Reads(ExpectedColumns(Provided)),
   views |-> [songs |-> [barrier |-> TRUE, owner |-> "owner",
                         definition |-> SourceTarget(Url)]]]

Overreaching ==
  {[Conforming EXCEPT !.role = "owner"],
   [Conforming EXCEPT !.attributes = {"bypassrls"}],
   [Conforming EXCEPT !.expiresIn = 0], [Conforming EXCEPT !.expiresIn = 61],
   [Conforming EXCEPT !.memberships = <<>>],
   [Conforming EXCEPT !.memberships = <<Group, Group>>],
   [Conforming EXCEPT !.memberships[1].set = TRUE],
   [Conforming EXCEPT !.memberships[1].memberOf = {"owner"}],
   [Conforming EXCEPT !.privileges = Reads({})],
   [Conforming EXCEPT !.privileges =
      @ \cup Reads({<<"public", "songs", "user">>})],
   [Conforming EXCEPT !.privileges =
      @ \cup {[on |-> "sequence", of |-> <<"public", "songs", "id">>,
               right |-> "USAGE"]}],
   [Conforming EXCEPT !.views.songs.barrier = FALSE],
   [Conforming EXCEPT !.views.songs.owner = "group"],
   [Conforming EXCEPT !.views.songs.definition = None]}

ASSUME ReadersAreSorted ==
  /\ ReaderConforms(Conforming, Provided)
  /\ \A reader \in Overreaching : ~ReaderConforms(reader, Provided)

MCReaders == {Conforming} \cup Overreaching

\* Documents with one mistake.
Broken ==
  {[Base EXCEPT !.unknown = {"notes"}],
   [Base EXCEPT !.administrator = None],
   [Base EXCEPT !.reader.ownerRole = "reader"],
   [Base EXCEPT !.reader.minutes = 4], [Base EXCEPT !.reader.minutes = 241],
   [Base EXCEPT !.reader.credentialFile = <<".rehearsal", "secrets">>],
   [Base EXCEPT !.reader.credentialFile =
      <<".rehearsal", "secrets", "..", "source">>],
   [Base EXCEPT !.relations = <<>>],
   [Base EXCEPT !.relations = @ \o @],
   [Base EXCEPT !.relations[1].orderBy = <<"name">>],
   [Base EXCEPT !.relations[1].columns = <<"id">>],
   [Base EXCEPT !.relations[1].definition = SourceTarget(Url)],
   [Base EXCEPT !.assetReader = None], [Base EXCEPT !.assets = None],
   [Base EXCEPT !.assets[1].prefix = <<"covers">>],
   [Base EXCEPT !.assets[1].rights = "approved-public"],
   [Base EXCEPT !.assets[1].mapping = None],
   [Provided EXCEPT !.reader.memberships = <<"group", "group">>],
   [Provided EXCEPT !.reader.memberships = <<"reader">>],
   [Provided EXCEPT !.administrator = "ADMIN"],
   [Provided EXCEPT !.relations[1].definition = None]}

\* Documents that are valid and cannot be prepared in this environment.
Unsupplied ==
  {[Base EXCEPT !.administrator = "UNSET"],
   [Base EXCEPT !.target = AssetEndpoint(MCEnvironment["URL"])],
   [Base EXCEPT !.relations[1].scope.value = "UNSET"],
   [Base EXCEPT !.assets[1].variable = "UNSET"],
   [Base EXCEPT !.assetReader.endpoint = SourceTarget(Url)],
   [Base EXCEPT !.assetReader.token = "UNSET"]}

ASSUME PoliciesAreSorted ==
  /\ \A p \in {Base, OtherViews, OtherLedger, Provided} : Preparable(p)
  /\ \A p \in Broken : ~PolicyValid(p)
  /\ \A p \in Unsupplied : PolicyValid(p) /\ ~Supplied(p)
  /\ Review(OtherLedger) = Review(Base)
  /\ Review(OtherViews) # Review(Base)
  /\ RetirementReview(OtherLedger) # RetirementReview(Base)

MCDocument ==
  [p \in {base, relisted, provided} |->
     CASE p = base -> Base [] p = relisted -> OtherLedger
       [] p = provided -> Provided]

MCPolicies == DOMAIN MCDocument

\* The two managed policies have one access plan and two retirement plans, in
\* whichever order.
Same == Permutations({base, relisted})
===============================================================================
