-------------------------------- MODULE Tpm --------------------------------
(***************************************************************************)
(* The attestation of the platform: tpm_attest reads the registers of the  *)
(* TPM one by one, has them quoted by the attestation key if there is one, *)
(* verifies the quote on board and publishes it; fleet_attest verifies it  *)
(* again on another node and remembers the key.  tpm_provision_ak is meant *)
(* to create the key.                                                      *)
(*                                                                         *)
(* A register is its version; a key is its number; a quote is what was     *)
(* signed, by which key and for which nonce; a nonce differs from that of  *)
(* the run before.  The TPM is not part of the code.                       *)
(***************************************************************************)
EXTENDS Integers, Sequences

CONSTANTS
    NPcrs,       \* how many registers are read
    MaxExtends,  \* bound: registers extended
    MaxKeys,     \* bound: attestation keys created
    MaxTpmFaults \* bound: errors of the TPM, kills, power cuts of the peer

ASSUME TpmAssumption ==
    /\ NPcrs \in Nat \ {0}
    /\ {MaxExtends, MaxKeys, MaxTpmFaults} \subseteq Nat

VARIABLES
    pcr,       \* the registers
    ak,        \* the key at the handle 0x81010002, 0 when it is free
    keys,      \* keys created so far
    att,       \* a run of tpm_attest
    rec,       \* the last record of tpm_attest.jsonl
    quoteFile, \* quote_publico.json
    seen,      \* tpm_tofu.json of the peer: the key it knows this node by
    peer,      \* the peer's last verdict
    provFailed, \* did tpm_provision_ak --apply run, and leave no key?
    nonce, tpmFaults

tpmVars == <<pcr, ak, keys, att, rec, quoteFile, seen, peer, provFailed, nonce,
             tpmFaults>>

Pcrs == 1..NPcrs
NoRun == [pc |-> "idle"]
NoQuoteFile == [ak |-> 0]
NoTpmRec == [clase |-> "none", veredicto |-> "none"]

TpmTypeOK ==
    /\ pcr \in [Pcrs -> 0..MaxExtends] /\ ak \in 0..MaxKeys /\ keys \in ak..MaxKeys
    /\ att.pc \in {"idle", "read", "keys", "quote", "check", "publish", "emit"}
    /\ rec.clase \in {"none", "DECLARADO", "ATESTADO"}
    /\ seen \in 0..MaxKeys /\ provFailed \in BOOLEAN

TpmInit ==
    /\ pcr = [i \in Pcrs |-> 0] /\ ak = 0 /\ keys = 0 /\ att = NoRun
    /\ rec = NoTpmRec /\ quoteFile = NoQuoteFile /\ seen = 0
    /\ peer = [estado |-> "none", continuidad |-> "none"] /\ provFailed = FALSE
    /\ nonce = 0 /\ tpmFaults = 0

-----------------------------------------------------------------------------
\* A register is extended while the system runs.
Extend ==
    /\ \A i \in Pcrs : pcr[i] < MaxExtends
    /\ \E i \in Pcrs : pcr' = [pcr EXCEPT ![i] = @ + 1]
    /\ UNCHANGED <<ak, keys, att, rec, quoteFile, seen, peer, provFailed, nonce,
                   tpmFaults>>

\* The operator creates the key with a tool of his own, or takes it away.
CreateKey ==
    /\ ak = 0 /\ keys < MaxKeys /\ ak' = keys + 1 /\ keys' = keys + 1
    /\ UNCHANGED <<pcr, att, rec, quoteFile, seen, peer, provFailed, nonce, tpmFaults>>

RevokeKey ==
    /\ ak > 0 /\ ak' = 0
    /\ UNCHANGED <<pcr, keys, att, rec, quoteFile, seen, peer, provFailed, nonce,
                   tpmFaults>>

\* tpm_provision_ak --apply.  The temporary objects of /dev/tpmrm0 belong to
\* the open file, and every command opens it again: what CreatePrimary made is
\* gone when EvictControl names it, and the handle stays free.
Provision ==
    /\ ak = 0 /\ ~provFailed /\ provFailed' = TRUE
    /\ UNCHANGED <<pcr, ak, keys, att, rec, quoteFile, seen, peer, nonce,
                   tpmFaults>>

-----------------------------------------------------------------------------
(***************************************************************************)
(* tpm_attest: cmd_cycle().                                                *)
(***************************************************************************)
Emit(clase, veredicto, values, quote) ==
    rec' = [clase |-> clase, veredicto |-> veredicto, pcr |-> values, quote |-> quote]

NoQuote == [key |-> 0, pcr |-> <<>>, nonce |-> 0]

StartAttest ==
    /\ att.pc = "idle" /\ att' = [pc |-> "read", values |-> <<>>]
    /\ UNCHANGED <<pcr, ak, keys, rec, quoteFile, seen, peer, provFailed, nonce,
                   tpmFaults>>

\* An error of the TPM before the registers are read ends the run.
TpmFails ==
    /\ tpmFaults < MaxTpmFaults /\ tpmFaults' = tpmFaults + 1
    /\ att.pc = "read" /\ att' = NoRun
    /\ Emit("DECLARADO", "LECTURA_FALLIDA", <<>>, NoQuote)
    /\ UNCHANGED <<pcr, ak, keys, quoteFile, seen, peer, provFailed, nonce>>

\* One command per register.
ReadPcr ==
    /\ att.pc = "read"
    /\ LET v == Append(att.values, pcr[Len(att.values) + 1])
       IN  att' = [pc |-> IF Len(v) = NPcrs THEN "keys" ELSE "read",
                    values |-> v]
    /\ UNCHANGED <<pcr, ak, keys, rec, quoteFile, seen, peer, provFailed, nonce,
                   tpmFaults>>

\* _clase_medida(): keys that cannot be listed or read count as none.
FindKey ==
    /\ att.pc = "keys"
    /\ \E readable \in BOOLEAN :
         /\ tpmFaults' = IF readable THEN tpmFaults ELSE tpmFaults + 1
         /\ tpmFaults' <= MaxTpmFaults
         /\ att' = [pc |-> IF ak > 0 /\ readable THEN "quote" ELSE "emit",
                    values |-> att.values, quote |-> NoQuote, ok |-> FALSE]
    /\ UNCHANGED <<pcr, ak, keys, rec, quoteFile, seen, peer, provFailed, nonce>>

\* TPM2_Quote with a nonce of this run; the handle may be free by now.
Quote ==
    /\ att.pc = "quote" /\ nonce' = 1 - nonce
    /\ att' = IF ak = 0 THEN [att EXCEPT !.pc = "emit"]
              ELSE [att EXCEPT !.pc = "check",
                     !.quote = [key |-> ak, pcr |-> pcr,
                                nonce |-> 1 - nonce]]
    /\ UNCHANGED <<pcr, ak, keys, rec, quoteFile, seen, peer, provFailed, tpmFaults>>

\* Mutant of Checks: the digest of the quote is not compared.
ChecksSignature(q, values, public, n) == q.key = public /\ q.nonce = n

\* Structure and negative control are taken to hold: the TPM is the TPM, and
\* the arithmetic is Curve's.
Checks(q, values, public, n) ==
    /\ q.key = public /\ q.nonce = n
    /\ \A i \in Pcrs : q.pcr[i] = values[i]

\* The public key is read again, after the quote.
CheckQuote ==
    /\ att.pc = "check"
    /\ att' = LET ok == Checks(att.quote, att.values, ak, nonce)
              IN  [att EXCEPT !.pc = IF ok THEN "publish" ELSE "emit", !.ok = ok]
    /\ UNCHANGED <<pcr, ak, keys, rec, quoteFile, seen, peer, provFailed, nonce,
                   tpmFaults>>

\* Renamed into place; a failure is passed over in silence.
Publish ==
    /\ att.pc = "publish" /\ att' = [att EXCEPT !.pc = "emit"]
    /\ \/ quoteFile' = [ak |-> att.quote.key, pcr |-> att.values,
                        quote |-> att.quote] /\ UNCHANGED tpmFaults
       \/ /\ tpmFaults < MaxTpmFaults /\ tpmFaults' = tpmFaults + 1
          /\ UNCHANGED quoteFile
    /\ UNCHANGED <<pcr, ak, keys, rec, seen, peer, provFailed, nonce>>

EmitRecord ==
    /\ att.pc = "emit" /\ att' = NoRun
    /\ Emit(IF att.ok THEN "ATESTADO" ELSE "DECLARADO", "PCR_LEIDOS",
            att.values, att.quote)
    /\ UNCHANGED <<pcr, ak, keys, quoteFile, seen, peer, provFailed, nonce, tpmFaults>>

KillAttest ==
    /\ att.pc # "idle" /\ tpmFaults < MaxTpmFaults /\ tpmFaults' = tpmFaults + 1
    /\ att' = NoRun
    /\ UNCHANGED <<pcr, ak, keys, rec, quoteFile, seen, peer, provFailed, nonce>>

Attest ==
    \/ StartAttest \/ ReadPcr \/ FindKey \/ Quote \/ CheckQuote \/ Publish
    \/ EmitRecord

-----------------------------------------------------------------------------
(***************************************************************************)
(* fleet_attest on another node: _verifica_tpm() and _tofu_ak().           *)
(***************************************************************************)
Continuity(known, key) ==
    CASE known = 0 -> "primer_avistamiento"
      [] known # 0 /\ known = key -> "estable"
      [] OTHER -> "AK_CAMBIADA"

\* The nonce is the node's own: the peer does not check it.
QuoteOk(f) == f.quote.key = f.ak /\ \A i \in Pcrs : f.quote.pcr[i] = f.pcr[i]

PeerVerifies ==
    /\ IF quoteFile = NoQuoteFile
       THEN /\ peer' = [estado |-> "NO_PUBLICA_QUOTE", continuidad |-> "none"]
            /\ UNCHANGED seen
       ELSE IF QuoteOk(quoteFile)
       THEN /\ peer' = [estado |-> "VERIFICADO_POR_MI",
                        continuidad |-> Continuity(seen, quoteFile.ak)]
            /\ seen' = IF seen = 0 THEN quoteFile.ak ELSE seen
       ELSE /\ peer' = [estado |-> "QUOTE_INVALIDO", continuidad |-> "none"]
            /\ UNCHANGED seen
    /\ UNCHANGED <<pcr, ak, keys, att, rec, quoteFile, provFailed, nonce, tpmFaults>>

\* The book is renamed into place and not fsynced: a power cut may leave
\* it empty, which reads as a book without entries.
PeerLosesBook ==
    /\ seen > 0 /\ tpmFaults < MaxTpmFaults /\ tpmFaults' = tpmFaults + 1
    /\ seen' = 0
    /\ UNCHANGED <<pcr, ak, keys, att, rec, quoteFile, peer, provFailed, nonce>>

TpmNext ==
    \/ Extend \/ CreateKey \/ RevokeKey \/ Provision \/ Attest \/ TpmFails
    \/ KillAttest \/ PeerVerifies \/ PeerLosesBook

-----------------------------------------------------------------------------
\* ATESTADO: the registers the record publishes are those the TPM had, all
\* at one moment, and signed, although they were read one by one; and no peer
\* finds the quote of an honest node invalid.
AttestedMeansQuoted ==
    /\ rec.clase = "ATESTADO" =>
         rec.quote.key > 0 /\ \A i \in Pcrs : rec.pcr[i] = rec.quote.pcr[i]
    /\ peer.estado # "QUOTE_INVALIDO"

\* The class ends up being what the TPM can prove: ATESTADO as long as there
\* is a key, DECLARADO when it was taken away.
ClassSettled == rec.clase = IF ak > 0 THEN "ATESTADO" ELSE "DECLARADO"

\* tpm_provision_ak 28: the key becomes persistent.  (Not checked by a run:
\* the temporary object does not live to the second command.)
ProvisionPersists == ~provFailed

\* What a peer can fetch is of the key the node has.  (Not checked by a run:
\* the file of a key that was taken away stays.)
PublishedIsCurrent == <>[](ak = 0 => quoteFile = NoQuoteFile)
=============================================================================
