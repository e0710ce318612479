------------------------- MODULE MCSettingsCutover -------------------------
(* Two desktop programs, the second of a release with one module more, and *)
(* a backend that registers the user management alone.  One file has       *)
(* everything, one lacks the policies of the new module, one has ill-typed *)
(* policies of it, one ill-typed settings of the last module to be         *)
(* imported, and one is refused at once.                                   *)
EXTENDS SettingsCutover

MCRegistered == [desktop |-> {1, 3}, update |-> {1, 2, 3}, backend |-> {3}]

MCFile(id, technical, policies, illTechnical, illPolicies, unknown) ==
    [id |-> id, technical |-> technical, policies |-> policies,
     illTechnical |-> illTechnical, illPolicies |-> illPolicies, unknown |-> unknown]

MCLegacyFiles ==
    {MCFile("full", {1, 3}, {1, 2, 3}, {}, {}, FALSE),
     MCFile("old", {3}, {1, 3}, {}, {}, FALSE),
     MCFile("policy", {1, 3}, {1, 2, 3}, {}, {2}, FALSE),
     MCFile("setting", {1, 3}, {1, 2, 3}, {3}, {}, FALSE),
     MCFile("bad", {1}, {1, 2, 3}, {}, {}, TRUE)}
=============================================================================
