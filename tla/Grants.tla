------------------------------- MODULE Grants ------------------------------
(***************************************************************************)
(* Who may do what: iam_verify judges the tokens of the node by a chain of *)
(* two levels, mint_guard judges whether the node may issue.  Both only    *)
(* give a verdict.                                                         *)
(*                                                                         *)
(* The authority installs, replaces and revokes delegations, tokens, the   *)
(* policy and the certificate of the node while they run.  A delegation is *)
(* what the root of the IAM wrote in the signed comment ("issue", "other", *)
(* "noscope"), or "mint" if the root of the realm signed that, which means *)
(* nothing to iam_verify; or "unsigned" or "absent".  A certificate and    *)
(* its signature are two files.                                            *)
(***************************************************************************)
EXTENDS Integers, FiniteSets

CONSTANTS
    IamKeys,    \* the delegated keys
    Tokens,     \* Tokens[t]: signer, window, margin and whether policy admits it
    MaxNow,     \* bound: the clock
    MaxEdits,   \* bound: changes by the authority
    MaxGrantKills \* bound: runs killed or broken

ASSUME GrantsAssumption == {MaxNow, MaxEdits, MaxGrantKills} \subseteq Nat

VARIABLES
    now,
    anchor,    \* is the public key of the root there?
    deleg, policy, tokens,
    cert,      \* parent-node.cert: does it say CAN_MINT=true?
    certSig,   \* which certificate parent-node.cert.minisig signs
    norm,      \* the last line of asct/policy.jsonl
    iam, mint, \* the runs
    iamVerdict, mintVerdict,
    edits, grantKills

grantInputs == <<now, anchor, deleg, policy, tokens, cert, certSig, norm>>
grantVars == <<grantInputs, iam, mint, iamVerdict, mintVerdict, edits, grantKills>>

DelegStates == {"absent", "unsigned", "mint", "noscope", "other", "issue"}
Scoped(s) == s \in {"other", "issue"}
Resting == [pc |-> "idle"]

GrantsTypeOK ==
    /\ now \in 0..MaxNow /\ anchor \in BOOLEAN
    /\ deleg \in [IamKeys -> DelegStates]
    /\ tokens \subseteq DOMAIN Tokens
    /\ iamVerdict \in {"none", "SIN_ANCLA", "ANCLA_SIN_DELEGACIONES", "NO_CONFORME",
                       "CADENA_VALIDA_CON_TOKENS_RECHAZADOS", "CADENA_VALIDA"}
    /\ mintVerdict \in {"none", "EMISION_VEDADA", "EMISION_AUTORIZADA"}

GrantsInit ==
    /\ now = 0 /\ norm = "absent" /\ tokens = {}
    /\ \/ /\ anchor = FALSE /\ deleg = [k \in IamKeys |-> "absent"]
          /\ policy = "absent" /\ cert = "absent" /\ certSig = "absent"
       \/ /\ anchor = TRUE /\ deleg \in [IamKeys -> {"issue", "mint"}]
          /\ policy = "signed" /\ cert = "true" /\ certSig = "true"
    /\ iam = Resting /\ mint = Resting
    /\ iamVerdict = "none" /\ mintVerdict = "none"
    /\ edits = 0 /\ grantKills = 0

-----------------------------------------------------------------------------
Tick ==
    /\ now < MaxNow /\ now' = now + 1
    /\ UNCHANGED <<anchor, deleg, policy, tokens, cert, certSig, norm, iam, mint,
                   iamVerdict, mintVerdict, edits, grantKills>>

\* The authority of the realm and that of the IAM ...
EditDelegation ==
    /\ edits < MaxEdits /\ edits' = edits + 1
    /\ \E k \in IamKeys, s \in DelegStates : deleg' = [deleg EXCEPT ![k] = s]
    /\ UNCHANGED <<now, anchor, policy, tokens, cert, certSig, norm, iam, mint,
                   iamVerdict, mintVerdict, grantKills>>

EditIam ==
    /\ edits < MaxEdits /\ edits' = edits + 1
    /\ \/ anchor' = TRUE /\ UNCHANGED <<policy, tokens>>
       \/ policy' \in {"absent", "unsigned", "signed"} /\ UNCHANGED <<anchor, tokens>>
       \/ tokens' \in SUBSET DOMAIN Tokens /\ UNCHANGED <<anchor, policy>>
    /\ UNCHANGED <<now, deleg, cert, certSig, norm, iam, mint, iamVerdict,
                   mintVerdict, grantKills>>

\* ... that of the parent, and asct_policy, whose line may be cut.
EditMint ==
    /\ edits < MaxEdits /\ edits' = edits + 1
    /\ \/ cert' \in {"absent", "true", "false"} /\ UNCHANGED <<certSig, norm>>
       \/ certSig' \in {"absent", "true", "false"} /\ UNCHANGED <<cert, norm>>
       \/ norm' \in {"conforme", "desviacion", "cut"} /\ UNCHANGED <<cert, certSig>>
    /\ UNCHANGED <<now, anchor, deleg, policy, tokens, iam, mint, iamVerdict,
                   mintVerdict, grantKills>>

-----------------------------------------------------------------------------
(***************************************************************************)
(* iam_verify: delegations, then policy, then tokens.                      *)
(***************************************************************************)
IamDone(v) == iamVerdict' = v /\ iam' = Resting

ReadDelegations ==
    /\ iam.pc = "idle"
    /\ IF anchor
       THEN /\ iam' = [pc |-> "policy", at |-> now, deleg |-> deleg]
            /\ UNCHANGED iamVerdict
       ELSE IamDone("SIN_ANCLA")
    /\ UNCHANGED <<grantInputs, mint, mintVerdict, edits, grantKills>>

ReadPolicy ==
    /\ iam.pc = "policy"
    /\ iam' = [pc |-> "tokens", at |-> iam.at, deleg |-> iam.deleg,
               policy |-> policy = "signed"]
    /\ UNCHANGED <<grantInputs, mint, iamVerdict, mintVerdict, edits, grantKills>>

\* Mutant of Issuers: a key that is avowed may issue, whatever its scope.
AnyAvowed(d) == {k \in IamKeys : Scoped(d[k])}

Issuers(d) == {k \in IamKeys : d[k] = "issue"}

\* With the margin the token itself declares.
InWindow(t, at) == Tokens[t].nbf <= at + Tokens[t].skew
                   /\ at - Tokens[t].skew <= Tokens[t].exp

TokenValid(t, d, pol, at) ==
    /\ Tokens[t].signer \in Issuers(d)
    /\ InWindow(t, at)
    /\ pol /\ Tokens[t].admitted

\* No delegation, or none avowed, or no token that is valid ...
ChainVerdict(d, present, valid) ==
    CASE \A k \in IamKeys : d[k] = "absent" -> "ANCLA_SIN_DELEGACIONES"
      [] (\E k \in IamKeys : d[k] # "absent") /\ ~(\E k \in IamKeys : Scoped(d[k]))
           -> "NO_CONFORME"
      [] OTHER ->
           IF present # {} /\ valid = {} THEN "NO_CONFORME"
           ELSE IF present # valid THEN "CADENA_VALIDA_CON_TOKENS_RECHAZADOS"
           ELSE "CADENA_VALIDA"

JudgeTokens ==
    /\ iam.pc = "tokens"
    /\ LET valid == {t \in tokens : TokenValid(t, iam.deleg, iam.policy, iam.at)}
       IN  IamDone(ChainVerdict(iam.deleg, tokens, valid))
    /\ UNCHANGED <<grantInputs, mint, mintVerdict, edits, grantKills>>

-----------------------------------------------------------------------------
(***************************************************************************)
(* mint_guard: the certificate is verified, then read; then the keys and   *)
(* the norm.                                                               *)
(***************************************************************************)
CheckCert ==
    /\ mint.pc = "idle"
    /\ mint' = [pc |-> "fields", signed |-> cert # "absent" /\ certSig = cert]
    /\ UNCHANGED <<grantInputs, iam, iamVerdict, mintVerdict, edits, grantKills>>

ReadFields ==
    /\ mint.pc = "fields"
    /\ mint' = [pc |-> "keys", ok |-> mint.signed /\ cert = "true"]
    /\ UNCHANGED <<grantInputs, iam, iamVerdict, mintVerdict, edits, grantKills>>

\* A norm that cannot be read does not forbid.
JudgeMint ==
    /\ mint.pc = "keys" /\ mint' = Resting
    /\ mintVerdict' =
         IF /\ mint.ok
            /\ \E k \in IamKeys : deleg[k] = "mint"
            /\ norm # "desviacion"
         THEN "EMISION_AUTORIZADA" ELSE "EMISION_VEDADA"
    /\ UNCHANGED <<grantInputs, iam, iamVerdict, edits, grantKills>>

\* A run is killed, or breaks: then mint_guard forbids.
BreakRun ==
    /\ grantKills < MaxGrantKills /\ grantKills' = grantKills + 1
    /\ \/ iam.pc # "idle" /\ iam' = Resting /\ UNCHANGED <<mint, mintVerdict>>
       \/ /\ mint.pc # "idle" /\ mint' = Resting /\ UNCHANGED iam
          /\ mintVerdict' \in {mintVerdict, "EMISION_VEDADA"}
    /\ UNCHANGED <<grantInputs, iamVerdict, edits>>

IamCycle == ReadDelegations \/ ReadPolicy \/ JudgeTokens
MintCycle == CheckCert \/ ReadFields \/ JudgeMint

IamNext == Tick \/ EditDelegation \/ EditIam \/ IamCycle \/ BreakRun
MintNext == EditDelegation \/ EditMint \/ MintCycle \/ BreakRun

-----------------------------------------------------------------------------
\* What the node may do, in terms of what was granted, revoked and expired.
Admitted(t) ==
    /\ anchor /\ policy = "signed" /\ Tokens[t].admitted
    /\ deleg[Tokens[t].signer] = "issue"
    /\ now \in (Tokens[t].nbf - Tokens[t].skew)..(Tokens[t].exp + Tokens[t].skew)

MayIssue ==
    /\ cert = "true" /\ certSig = "true"
    /\ "mint" \in {deleg[k] : k \in IamKeys} /\ norm # "desviacion"

\* Once the authority and the clock rest, the verdict is what was granted,
\* whatever was changed in the middle of a run and whatever broke: nothing
\* granted is refused and nothing revoked or expired remains.
IamSettled ==
    /\ iamVerdict = "CADENA_VALIDA" => anchor /\ \A t \in tokens : Admitted(t)
    /\ iamVerdict = "NO_CONFORME" /\ (\E k \in IamKeys : Scoped(deleg[k])) =>
          tokens # {} /\ \A t \in tokens : ~Admitted(t)

MintSettled == mintVerdict = "EMISION_AUTORIZADA" <=> MayIssue

\* mint_guard 46: any doubt is a no.  (Not checked by a run: a norm that
\* cannot be read counts as none.)
DoubtForbids == <>[](norm = "cut" => mintVerdict = "EMISION_VEDADA")
=============================================================================
