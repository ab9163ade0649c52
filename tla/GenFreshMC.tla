----------------------------- MODULE GenFreshMC -----------------------------
(* Three files: an index that both specifications shape, a class that only *)
(* the first version of its specification has, and the sidecar.            *)
EXTENDS GenFresh

McFiles == <<"class", "index", "sidecar">>
McKindOf == [class |-> "pm", index |-> "pm", sidecar |-> "json"]

\* perltidy on the PATH; in the home directory only, with and without what
\* it needs to load; nowhere.
Shell(found, lib, root, installed) ==
  [found |-> found, perl5lib |-> lib, root |-> root, installed |-> installed]
McShells == {Shell({"path", "home"}, <<>>, "", {}),
             Shell({"home"}, <<"other lib">>, "", {"home lib"}),
             Shell({"home"}, <<>>, "other lib", {"home lib", "other lib"}),
             Shell({}, <<>>, "", {})}

McParts == <<"base", "leaf">>
McVersions == {"old", "new", "broken"}
McEmits ==
  [base |-> [v \in McVersions |-> {"index", "sidecar"}],
   leaf |-> [v \in McVersions |->
               IF v = "old" THEN {"class", "index", "sidecar"}
                            ELSE {"index", "sidecar"}]]
=============================================================================
