------------------------------ MODULE MCSharedDocker ------------------------------
(* A completed container of each of two projects that share a volume; one  *)
(* that joins the first project later, from the older of two images; and   *)
(* one that bears the labels of both, with a volume that does so too.      *)
EXTENDS SharedDocker

Label(supabase, rehearsal) == [supabase |-> supabase, rehearsal |-> rehearsal]
Main == Label(Nothing, "main")
Side == Label("side", Nothing)
Both == Label("side", "main")

SomeBoxLabels == <<Main, Side, Main, Both>>
SomeVolumeLabels == [data |-> Main, logs |-> Side, mixed |-> Both]
SomeMounts == <<{"data"}, {"data", "logs"}, {}, {"mixed"}>>
SomeImages == <<2, 2, 1, 2>>
SomeTags == <<1, 1, 2>>
InOrder == <<1, 2>>
Started == <<"main", "side">>
Providers == [main |-> "rehearsal", side |-> "supabase"]
Recorded == [main |-> [marker |-> "named", candidate |-> "bound"],
             side |-> [marker |-> "named", candidate |-> "foreign"]]
Sizes == [data |-> 3, logs |-> 2, mixed |-> 2]
Weights == <<2, 1, 2, 1>>
Needed == [memory |-> 2, containers |-> 1]

=============================================================================
