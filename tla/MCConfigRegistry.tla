-------------------------- MODULE MCConfigRegistry --------------------------
(***************************************************************************)
(* Small instances of ConfigRegistry for TLC.  Three companies: c1 is      *)
(* configured already, in an organization without a limit; c2 and c3 share *)
(* one whose plan takes one company; c1 and c3 are on one CNPJ.  c1 gives  *)
(* up the série of one environment and takes it again; c3 wants it too.    *)
(***************************************************************************)
EXTENDS ConfigRegistry, TLC

CONSTANTS c1, c2, c3, o1, o2, t1, t2

MCOrgOf == [c \in Companies |-> IF c = c1 THEN o2 ELSE o1]
MCTaxIdOf == [c \in Companies |-> IF c = c2 THEN t2 ELSE t1]
MCLimit == o1 :> 1 @@ o2 :> Unlimited

\* The plan of the first organization is chosen or changed once, whenever it is.
MCMaxMarks == o1 :> 1 @@ o2 :> 0

MCForm(p, h) == "prod" :> p @@ "hom" :> h
MCBefore == c1 :> MCForm(1, 1)
MCForms ==
    c1 :> {MCForm(1, 1), MCForm(1, 0)} @@ c2 :> {MCForm(0, 0)} @@ c3 :> {MCForm(0, 1)}

=============================================================================
