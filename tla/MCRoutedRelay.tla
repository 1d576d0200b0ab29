---------------------------- MODULE MCRoutedRelay ----------------------------
(***************************************************************************)
(* Small instances of RoutedRelay for TLC: two providers, an unconfigured  *)
(* third, one account each, and rule documents that name one of them twice *)
(* or gate it on quota.                                                    *)
(***************************************************************************)
EXTENDS RoutedRelay, TLC

CONSTANTS pa, pb,    \* providers
          aa, ab,    \* their accounts
          m1, m2     \* inbound models; also upstream models

MCKey == {<<pa, aa>>, <<pb, ab>>, <<pa, ab>>}

Rule(models, p, target, ceiling) ==
  [match |-> models, provider |-> p, target |-> target, ceiling |-> ceiling]
Target(p, a) == [provider |-> p, account |-> a]

(* Rules that share an account across another's, the first gated by quota; *)
(* the other inbound model has no rule at all.                             *)
Mixed == <<Rule({m1}, pa, m1, 1), Rule({m1}, pb, m1, NoCeiling),
           Rule({m1}, pa, m2, NoCeiling)>>
(* Documents and catalogs the relay has to refuse.                         *)
BadField == <<Rule(Malformed, pa, m1, NoCeiling)>>
MCDocuments == {Mixed, BadField}

Bound == <<Target(pa, aa), Target(pb, ab)>>
Ambiguous == <<Target(pa, aa), Target(pb, ab), Target(pa, ab)>>
Partial == <<Target(pa, aa)>>
MCCatalogs == {Bound, Ambiguous, Partial}

Snapshot(a, model, used, reset, valid) ==
  [account |-> a, model |-> model, utilization |-> used, reset |-> reset,
   valid |-> valid]
(* A provider whose quota cannot be read.                                  *)
Quiet == [p \in {pa, pb} |-> Unusable]
(* The gated rule may be taken, with a reset that may lie ahead or not.    *)
Open == [Quiet EXCEPT ![pa] = {Snapshot(aa, AnyModel, 1, 2, TRUE),
                               Snapshot(aa, m2, 2, 0, TRUE)}]
(* A model's own snapshot shuts it; the other provider's listing is spoilt.*)
Shut == pa :> {Snapshot(aa, AnyModel, 1, 0, TRUE), Snapshot(aa, m1, 2, 2, TRUE)}
     @@ pb :> {Snapshot(ab, m1, 0, 2, TRUE), Snapshot(ab, m1, 0, 0, FALSE)}
MCListings == {Open, Shut}
=============================================================================
