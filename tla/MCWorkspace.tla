---------------------------- MODULE MCWorkspace ----------------------------
EXTENDS Workspace

Agents == << <<"AGENTS.md">> >>
Doc == << <<"docs">>, <<"RULES.md">> >>
Skill == << <<"skills">>, <<"draw">>, <<"SKILL.md">> >>
Tool == << <<"skills">>, <<"draw">>, <<"run.sh">> >>
MCEnvironment == << <<"ENVIRONMENT.md">> >>
MCBootstrap == << <<"BOOTSTRAP.md">> >>
MCSkillMD == <<"SKILL.md">>

Workspace0 == [inline |-> <<>>, ref |-> FALSE, policy |-> "", managed |-> <<>>, packs |-> {}]
Just(main) == [workspaces |-> (Main :> main), packPolicy |-> "Replace", bootstrap |-> FALSE]
With(main, other) == [Just(main) EXCEPT !.workspaces = (Main :> main) @@ ("w" :> other)]

\* A raw pack of two files, whose next revision has a manifest and one file less.
MCRevisions ==
    "draw" :> << [manifest |-> FALSE, truncated |-> FALSE, files |-> (Skill :> "k1") @@ (Tool :> "k1")],
                 [manifest |-> TRUE, truncated |-> FALSE, files |-> (Skill :> "k2")] >>
    @@ "gone" :> <<>>

Draw == [Workspace0 EXCEPT !.packs = {"draw"}]
Managed(content) == [Draw EXCEPT !.inline = (Agents :> content), !.managed = (Agents :> "")]
MCDeclarations ==
    { Just(Managed("s1")), [Just([Managed("s2") EXCEPT !.packs = {}]) EXCEPT !.bootstrap = TRUE],
      With([Workspace0 EXCEPT !.policy = "Replace"], [Draw EXCEPT !.ref = TRUE]),
      [Just([Managed("s1") EXCEPT !.packs = {"draw", "gone"}]) EXCEPT !.packPolicy = "CreateOnly"] }
MCInitial == {Just(Managed("s1"))}
MCExternalMaps == {Agents :> "s1", Agents :> "s2", Missing}
MCEdited == {<<Main, Agents>>}
=============================================================================
