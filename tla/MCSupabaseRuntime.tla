-------------------------- MODULE MCSupabaseRuntime --------------------------
(* Two baselines, one captured before and one after the second migration;  *)
(* the second migration has two texts, and a third may follow it.          *)
EXTENDS SupabaseRuntime

MCGenerations == {"before", "after"}
MCRepresented == [g \in MCGenerations |->
    IF g = "before" THEN << <<1, 1>> >> ELSE << <<1, 1>>, <<2, 1>> >>]
MCDirectories == {d \in SUBSET {<<1, 1>>, <<2, 1>>, <<2, 2>>, <<3, 1>>} :
                     IsDirectory(d) /\ <<1, 1>> \in d}
=============================================================================
