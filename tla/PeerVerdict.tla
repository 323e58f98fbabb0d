---------------------------- MODULE PeerVerdict ----------------------------
(***************************************************************************)
(* What a node concludes about a peer, from what it knows and what it was  *)
(* told: the decisions of services/fleet_attest.py (N1), of                *)
(* services/fleet_consensus.py (N2) and of services/fleet_anchor.py (N3).  *)
(* They are pure: Fleet feeds them with what a run has read.               *)
(*                                                                         *)
(* A federation reference is a pair of the parent it means and the form it *)
(* is written in ("hash" or "key"); a certificate is known by its parent.  *)
(* Whether a signature verifies (minisign, ECDSA) is an input.             *)
(***************************************************************************)
EXTENDS Integers, FiniteSets

NoFed == <<"none", "absent">>
NoCert == "none"

\* _registro(): is the local registry of the realm backed by a signature?
\* The provisioning manifest decides alone when it is there with a signature.
RegistryBacked(r) ==
    IF r.manifest # "absent"
    THEN r.manifest = "signed" /\ r.covers = "match"
    ELSE r.ownSig

\* _verifica_linaje(): the node's certificate is tied to the root the peer
\* serves, and a countersignature, if it verifies, is that of this peer.
LineageVerified(l) ==
    /\ l.published
    /\ l.parentFp = "match"
    /\ l.idMatches
    /\ l.counter = "valid" => l.counterIsHis

\* _verifica_tpm(): the ladder of a published quote.
QuoteState(q) ==
    CASE q = "absent"     -> "NO_PUBLICA_QUOTE"
      [] q = "unreadable" -> "QUOTE_ILEGIBLE"
      [] q = "invalid"    -> "QUOTE_INVALIDO"
      [] q = "verified"   -> "VERIFICADO_POR_MI"

\* The same parent, written the same way or resolved by the certificate of
\* the parent that the peer publishes.
SameParent(mine, his, cert) ==
    \/ mine = his
    \/ /\ cert # NoCert
       /\ his = <<cert, "hash">> \/ his[2] = "key"
       /\ mine = <<cert, "hash">>

\* A peer the registry does not name is judged by its adhesion alone.
FederationVerdict(e) ==
    CASE e.his = NoFed  -> "SIN_FEDERACION_PUBLICADA"
      [] e.his # NoFed /\ e.mine = NoFed -> "SIN_FEDERACION_PROPIA"
      [] e.his # NoFed /\ e.mine # NoFed /\ SameParent(e.mine, e.his, e.cert)
             -> "FEDERADO"
      [] OTHER -> IF e.mine[2] # e.his[2] THEN "FEDERACION_NO_COMPARABLE"
                                          ELSE "OTRA_FEDERACION"

\* The end of verifica_par(): whom this is, once the chain is verified.
Authorization(e) ==
    CASE ~e.registry  -> "SIN_REGISTRO"
      [] e.registry /\ ~e.listed -> FederationVerdict(e)
      [] e.registry /\ e.listed /\ e.degraded -> "AUTOINFORME_DEGRADADO"
      [] OTHER -> IF e.backed THEN "CONFORME" ELSE "REGISTRO_NO_RESPALDADO"

Valid == {"CONFORME", "FEDERADO", "REGISTRO_NO_RESPALDADO"}

\* The verdict the consensus reads in the list "flota".
Flota(v) == IF v \in Valid THEN "VALIDA" ELSE v

-----------------------------------------------------------------------------
(***************************************************************************)
(* consensus(): rows[v][s] is what verifier v says of s, "null" if it gave *)
(* no verdict, "absent" if s is not in its list.  A node does not vote for *)
(* itself; with no quorum given, a strict majority of those who voted      *)
(* decides.                                                                *)
(***************************************************************************)
Votes(rows, s) ==
    {v \in DOMAIN rows \ {s} : rows[v][s] \notin {"absent", "null"}}

ValidVotes(rows, s) == {v \in Votes(rows, s) : rows[v][s] = "VALIDA"}

\* Mutant of Need: half of the votes is enough.
NeedHalf(total, quorum) ==
    IF quorum > 0 THEN quorum ELSE IF total > 0 THEN (total + 1) \div 2 ELSE 1

Need(total, quorum) ==
    IF quorum > 0 THEN quorum ELSE IF total > 0 THEN total \div 2 + 1 ELSE 1

Consensus(rows, s, quorum) ==
    LET total == Cardinality(Votes(rows, s))
        valid == Cardinality(ValidVotes(rows, s))
    IN  CASE total = 0 -> "SIN_VERIFICADORES"
          [] total > 0 /\ valid >= Need(total, quorum) -> "CONSENSO_VALIDA"
          [] OTHER -> "SIN_QUORUM"

\* The exit code: silence is a failure only when the mesh is linked.
ConsensusExit(rows, mesh) ==
    IF /\ \A v \in DOMAIN rows : \A s \in DOMAIN rows[v] : rows[v][s] = "absent"
       /\ mesh = "LINKED"
    THEN 2 ELSE 0

\* check_peer() of fleet_anchor: the chain now served against the last
\* anchor; hmap gives the hash of every height served.
AnchorVerdict(hmap, top, last) ==
    CASE last.height < 0                 -> "NUEVO"
      [] last.height >= 0 /\ top < last.height -> "ROLLBACK"
      [] OTHER -> IF last.height \notin DOMAIN hmap THEN "PODADA"
                  ELSE IF hmap[last.height] = last.head
                       THEN "COHERENTE" ELSE "REESCRITA"
=============================================================================
