------------------------------ MODULE MCTrust ------------------------------
(***************************************************************************)
(* One instance for what a node takes as proof: the arithmetic of a        *)
(* signature, the key of the operator, the quote of the TPM, the pack that *)
(* makes it a realm, the grants of the authority, the code the node signs  *)
(* and the verdict about who governs it.  They share no state: a behaviour *)
(* exercises one of them, and the others rest.                             *)
(***************************************************************************)
EXTENDS Curve, KeyToken, Tpm, Realm, Grants, Codegen, Governance

VARIABLES
    part,
    input  \* of Curve: a secret key, a hash and a signature

curveVars == <<input>>
vars == <<part, curveVars, keyVars, tpmVars, realmVars, grantVars, codegenVars, govVars>>

MCIfaces == <<"hidraw0", "hidraw1">>
MCTokens ==
    [t1 |-> [signer |-> "k1", nbf |-> 0, exp |-> 0, skew |-> 1, admitted |-> TRUE],
     t2 |-> [signer |-> "k2", nbf |-> 1, exp |-> 2, skew |-> 0, admitted |-> TRUE]]

Inputs == [d : 1..Order - 1, e : 0..Order, r : 0..Order, s : 0..Order]
NoInput == [d |-> 1, e |-> 0, r |-> 0, s |-> 0]

Init ==
    /\ part \in {"curve", "key", "tpm", "realm", "iam", "mint", "codegen", "gov"}
    /\ input \in IF part = "curve" THEN Inputs ELSE {NoInput}
    /\ KeyInit /\ TpmInit /\ RealmInit /\ GrantsInit /\ CodegenInit /\ GovInit
    /\ plugged = "hidraw1"
    /\ part # "realm" => pubs = <<>>
    /\ part # "key" => made = 0
    /\ part \notin {"iam", "mint"} => ~anchor
    /\ part # "codegen" => ~identity
    /\ ground \in [constitution : {"signed", "unsigned"}, authority : {TRUE}, verifier : {TRUE},
                   soft : {TRUE}]
    /\ part # "gov" => ground.constitution = "signed"

\* A step of one part; rest is what only the other parts have.
InPart(p, A, rest) == part = p /\ A /\ UNCHANGED <<part, input, rest>>

NotKey == <<tpmVars, realmVars, grantVars, codegenVars, govVars>>
NotTpm == <<keyVars, realmVars, grantVars, codegenVars, govVars>>
NotRealm == <<keyVars, tpmVars, grantVars, codegenVars, govVars>>
NotGrants == <<keyVars, tpmVars, realmVars, codegenVars, govVars>>
NotCodegen == <<keyVars, tpmVars, realmVars, grantVars, govVars>>
NotGov == <<keyVars, tpmVars, realmVars, grantVars, codegenVars>>

Next ==
    \/ InPart("key", KeyNext, NotKey)
    \/ InPart("tpm", TpmNext, NotTpm)
    \/ InPart("realm", RealmNext, NotRealm)
    \/ InPart("iam", IamNext, NotGrants)
    \/ InPart("mint", MintNext, NotGrants)
    \/ InPart("codegen", CodegenNext, NotCodegen)
    \/ InPart("gov", GovNext, NotGov)

Spec == Init /\ [][Next]_vars

\* layerd launches tpm_attest, realm_activate, iam_verify, mint_guard,
\* cognition_guard and crash_recovery for ever, and keeps codegen_nodo running.  (A behaviour
\* exercises one part: one condition serves several.)
FairSpec ==
    /\ Spec
    /\ WF_vars(\/ InPart("tpm", Attest, NotTpm)
               \/ InPart("realm", RealmCycle, NotRealm)
               \/ InPart("iam", IamCycle, NotGrants)
               \/ InPart("mint", MintCycle, NotGrants)
               \/ InPart("codegen", CureLineage, NotCodegen)
               \/ InPart("gov", GuardRun, NotGov))
    /\ \A w \in Workers : WF_vars(InPart("codegen", WorkerStep(w), NotCodegen))

-----------------------------------------------------------------------------
\* The loop that doubles and adds yields the multiple, and a signature is
\* accepted exactly when somebody who knows the secret key could have made it:
\* for some k, r is the abscissa of k times the generator and s k = e + r d.
\* Zero and the order itself included, as r, s or hash.
EcdsaSound ==
    part = "curve" =>
        LET i == input  A == Mul(i.d, Gen)
        IN  /\ A = Times(i.d)
            /\ EcdsaOk(A, i.e, i.r, i.s) <=>
                 /\ 0 < i.s /\ i.s < Order /\ 0 < i.r /\ i.r < Order
                 /\ \E k \in 1..Order - 1 :
                      /\ Times(k)[1] % Order = i.r
                      /\ (i.s * k - i.e - i.r * i.d) % Order = 0

\* Nothing counts as proved that was not: neither a signature, nor a quote,
\* nor a pack, nor code, nor an old verdict; and the key is found where it is.
NothingUnproved ==
    /\ part = "key" => KeyTypeOK /\ ValidMeansSigned /\ KeyIsFound
    /\ part = "tpm" => TpmTypeOK /\ AttestedMeansQuoted
    /\ part = "realm" => RealmTypeOK /\ SovereignOnOwnPack
    /\ part \in {"iam", "mint"} => GrantsTypeOK
    /\ part = "codegen" => CodegenTypeOK /\ SignedPassed /\ LineageChained
    /\ part = "gov" => GovTypeOK /\ GovernedIsRecent

\* What is proved counts in the end, and what was revoked does not; every
\* task of the operator is brought to an end.
TrustSettles ==
    /\ <>[](/\ part = "tpm" => ClassSettled
            /\ part = "iam" => IamSettled
            /\ part = "mint" => MintSettled
            /\ part = "codegen" => TasksFinish
            /\ part = "gov" => GovernanceSettled)
    /\ part = "realm" => RealmActivates
=============================================================================
