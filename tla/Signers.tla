-------------------------------- MODULE Signers --------------------------------
(***************************************************************************)
(* Signed submissions of BridgeWatchContract (soroban/src/lib.rs): the     *)
(* registered signers, their nonces, the cache of payloads whose signature *)
(* was checked, and the verification of one or several signatures.         *)
(*                                                                         *)
(* A message is the payload, a sequence of readings; whether a signature   *)
(* is the digest of the payload, the signer's key, the nonce and the       *)
(* expiry is the field genuine.                                            *)
(***************************************************************************)
EXTENDS MonitorBase, SequencesExt

CONSTANTS
    SignerId,
    Message,            \* payloads passed to verify_signature, verify_multi_sig
    MaxNonce,           \* bound: nonces
    Expiries,           \* bound: expiry of a signature; 0 for none
    Thresholds          \* bound: passed to set_signature_threshold

VARIABLES
    signer,             \* "none", "active" or "removed"
    nonce,              \* SignerNonce: last nonce taken, 0 at first
    sig_cache,          \* SigCache: payloads verified before
    sig_threshold,
    taken               \* history: signatures taken, with their payload

signerVars == <<signer, nonce, sig_cache, sig_threshold, taken>>

SignerSignature ==
    [signer_id : SignerId, nonce : 0 .. MaxNonce, expiry : Expiries, genuine : BOOLEAN]

SignersInit ==
    /\ signer = [id \in SignerId |-> "none"]
    /\ nonce = [id \in SignerId |-> 0]
    /\ sig_cache = {}
    /\ sig_threshold = 1
    /\ taken = <<>>

SignersTypeOK ==
    /\ signer \in [SignerId -> {"none", "active", "removed"}]
    /\ nonce \in [SignerId -> 0 .. MaxNonce]
    /\ sig_cache \subseteq {t.message : t \in Range(taken)}
    /\ sig_threshold \in Nat \ {0}
-----------------------------------------------------------------------------
\* A removed signer stays on record: it cannot be registered again.
RegisterSigner(caller, id) ==
    /\ Governs(caller)
    /\ signer[id] = "none"
    /\ signer' = [signer EXCEPT ![id] = "active"]
    /\ UNCHANGED <<nonce, sig_cache, sig_threshold, taken>>

RemoveSigner(caller, id) ==
    /\ Governs(caller)
    /\ signer[id] = "active"
    /\ signer' = [signer EXCEPT ![id] = "removed"]
    /\ UNCHANGED <<nonce, sig_cache, sig_threshold, taken>>

SetSignatureThreshold(caller, threshold) ==
    /\ Governs(caller)
    /\ threshold >= 1
    /\ sig_threshold' = threshold
    /\ UNCHANGED <<signer, nonce, sig_cache, taken>>

\* The part of the state that verify_signature reads and writes; ok is FALSE
\* once a signature was refused.
Ledger == [nonce |-> nonce, cache |-> sig_cache, taken |-> taken, ok |-> TRUE]

\* Mutant: a payload in the cache is taken before the nonce is looked at.
Verified_CacheFirst(book, message, sig) ==
    [nonce |-> [book.nonce EXCEPT ![sig.signer_id] = sig.nonce],
     cache |-> book.cache \cup {message},
     taken |-> Append(book.taken, [message |-> message, sig |-> sig]),
     ok    |-> /\ book.ok
               /\ signer[sig.signer_id] = "active"
               /\ sig.expiry = 0 \/ now <= sig.expiry
               /\ \/ message \in book.cache
                  \/ sig.nonce > book.nonce[sig.signer_id] /\ sig.genuine]

\* Mutant: the payload is put in the cache before it is looked up there.
Verified_CacheFilled(book, message, sig) ==
    [nonce |-> [book.nonce EXCEPT ![sig.signer_id] = sig.nonce],
     cache |-> book.cache \cup {message},
     taken |-> Append(book.taken, [message |-> message, sig |-> sig]),
     ok    |-> /\ book.ok
               /\ signer[sig.signer_id] = "active"
               /\ sig.expiry = 0 \/ now <= sig.expiry
               /\ sig.nonce > book.nonce[sig.signer_id]
               /\ message \in book.cache \cup {message} \/ sig.genuine]

\* verify_signature: the nonce is checked before the cache; a payload in the
\* cache is not checked against its signature again.
Verified(book, message, sig) ==
    [nonce |-> [book.nonce EXCEPT ![sig.signer_id] = sig.nonce],
     cache |-> book.cache \cup {message},
     taken |-> Append(book.taken, [message |-> message, sig |-> sig]),
     ok    |-> /\ book.ok
               /\ signer[sig.signer_id] = "active"
               /\ sig.expiry = 0 \/ now <= sig.expiry
               /\ sig.nonce > book.nonce[sig.signer_id]
               /\ message \in book.cache \/ sig.genuine]

Written(book) ==
    /\ book.ok
    /\ nonce' = book.nonce
    /\ sig_cache' = book.cache
    /\ taken' = book.taken
    /\ UNCHANGED <<signer, sig_threshold>>

SignedOnce(message, sig) == Written(Verified(Ledger, message, sig))

\* verify_multi_sig: no signer twice, each signature verified in its turn.
SignedByMany(message, sigs) ==
    /\ Len(sigs) >= sig_threshold
    /\ \A i, j \in DOMAIN sigs : i # j => sigs[i].signer_id # sigs[j].signer_id
    /\ Written(FoldLeft(LAMBDA book, sig : Verified(book, message, sig), Ledger, sigs))

\* The two are entry points of their own: anyone may call them.
VerifySignature(message, sig) == SignedOnce(message, sig)
VerifyMultiSig(message, sigs) == SignedByMany(message, sigs)

SignersNext ==
    \/ \E caller \in Address, id \in SignerId :
          RegisterSigner(caller, id) \/ RemoveSigner(caller, id)
    \/ \E caller \in Address, threshold \in Thresholds :
          SetSignatureThreshold(caller, threshold)
    \/ \E message \in Message, sig \in SignerSignature : VerifySignature(message, sig)
    \/ \E message \in Message, first, second \in SignerSignature :
          VerifyMultiSig(message, <<first, second>>)
-----------------------------------------------------------------------------
(* The nonces of a signer only rise, whatever payload, cache or entry point *)
(* they come by, so a signature is taken once: verify_signature looks at    *)
(* the nonce before the cache, as its comment on their order says.          *)
SignaturesOnce ==
    \A i, j \in DOMAIN taken :
        i < j => \/ taken[i].sig.signer_id # taken[j].sig.signer_id
                 \/ taken[i].sig.nonce < taken[j].sig.nonce

(* What a submission rests on: the first signature taken for a payload was  *)
(* genuine.  The cache answers for the later ones of the same payload, by   *)
(* whatever signer, so of the signatures that meet a threshold only one     *)
(* need be genuine.                                                         *)
CacheEarned ==
    \A j \in DOMAIN taken :
        \E i \in 1 .. j : taken[i].message = taken[j].message /\ taken[i].sig.genuine
===============================================================================
