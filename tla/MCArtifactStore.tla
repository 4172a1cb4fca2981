--------------------------- MODULE MCArtifactStore ---------------------------
(***************************************************************************)
(* Small import graphs for ArtifactStore.  Version 0 of a file is the one  *)
(* that is named; version 1 differs from it where the graph says so.       *)
(***************************************************************************)
EXTENDS ArtifactStore

\* "app" imports "lib" and "util"; its other version imports "util" alone.
Fan == [x \in File \X Version |->
           CASE x = <<"app", 0>> -> {"lib", "util"}
             [] x = <<"app", 1>> -> {"util"}
             [] OTHER -> {}]

\* "app" imports "lib".
Pair == [x \in File \X Version |-> IF x[1] = "app" THEN {"lib"} ELSE {}]

\* "app" imports "mid", which imports "lib".
Chain == [x \in File \X Version |->
             CASE x[1] = "app" -> {"mid"}
               [] x[1] = "mid" -> {"lib"}
               [] OTHER -> {}]

\* "app" imports "lib" and "util", and version 1 of "lib" imports "app".
Cycle == [x \in File \X Version |->
             CASE x[1] = "app" -> {"lib", "util"}
               [] x = <<"lib", 1>> -> {"app"}
               [] OTHER -> {}]

NoPairs == {}
LibBreaks == {<<"lib", 1>>}
AppUncached == {<<"app", 1>>}
=============================================================================
