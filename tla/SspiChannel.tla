---------------------------- MODULE SspiChannel ----------------------------
(***************************************************************************)
(* Two SecurityContexts of nla/sspi.rs, one of each role and derived from  *)
(* the same exported session key, that seal messages for each other.       *)
(* What is handed to unseal is any blob either side ever sealed, in any    *)
(* order and any number of times, possibly altered or cut short: delivery  *)
(* is whatever the bytes of a TSRequest can bring.  The sequence numbers   *)
(* wrap, and messages are sealed with numbers used before; but a side that *)
(* has sealed SeqMod (2^32) messages more than its peer accepted waits.    *)
(* One that went on could, after that many rejected blobs in a row, bring  *)
(* the peer to a number and a keystream position that match once more.     *)
(***************************************************************************)
EXTENDS Sspi, Sequences

CONSTANTS Msg,             \* plaintexts
          MsgLen,          \* their lengths in bytes
          MaxSent,         \* messages each side seals
          MaxUnseal        \* blobs each side opens (both bound the model only)

ASSUME ChannelAssumption ==
  /\ MsgLen \in [Msg -> Nat]
  /\ MaxSent \in Nat
  /\ MaxUnseal \in Nat

VARIABLES ctx,             \* the context of each role
          sent,            \* history: blobs sealed by each role
          accepted,        \* history: plaintexts unseal returned to each role
          rejected,        \* history: unseal has found a checksum mismatch
          opened           \* number of unseal calls, for the bound

sealVars == <<ctx, sent, accepted, rejected, opened>>

ChannelBlob == [key : Role, seq : 0..(SeqMod - 1), at : Nat, msg : Msg, len : Nat,
         intact : BOOLEAN]

SealTypeOK ==
  /\ ctx \in [Role -> SecurityContext]
  /\ sent \in [Role -> Seq(ChannelBlob)]
  /\ accepted \in [Role -> Seq(Msg)]
  /\ rejected \in [Role -> BOOLEAN]
  /\ opened \in [Role -> Nat]

SealInit ==
  /\ ctx = [r \in Role |-> NewContext(r)]
  /\ sent = [r \in Role |-> <<>>]
  /\ accepted = [r \in Role |-> <<>>]
  /\ rejected = [r \in Role |-> FALSE]
  /\ opened = [r \in Role |-> 0]

-----------------------------------------------------------------------------
seal(r, m) ==
  /\ Len(sent[r]) < MaxSent
  /\ Len(sent[r]) < Len(accepted[Peer(r)]) + SeqMod
  /\ sent' = [sent EXCEPT ![r] = Append(@, SealedBlob(ctx[r], m, MsgLen[m]))]
  /\ ctx' = [ctx EXCEPT ![r] = AfterSeal(ctx[r], MsgLen[m])]
  /\ UNCHANGED <<accepted, rejected, opened>>

unseal(r, blob) ==
  /\ opened[r] < MaxUnseal
  /\ opened' = [opened EXCEPT ![r] = @ + 1]
  /\ ctx' = [ctx EXCEPT ![r] = AfterUnseal(ctx[r], blob)]
  /\ \/ /\ Verifies(ctx[r], blob)
        /\ accepted' = [accepted EXCEPT ![r] = Append(@, blob.msg)]
        /\ UNCHANGED rejected
     \/ /\ ~Verifies(ctx[r], blob)
        /\ rejected' = [rejected EXCEPT ![r] = TRUE]
        /\ UNCHANGED accepted
  /\ UNCHANGED sent

\* Fewer than 16 bytes: refused before either handle is touched
unsealShort(r) ==
  /\ opened[r] < MaxUnseal
  /\ opened' = [opened EXCEPT ![r] = @ + 1]
  /\ UNCHANGED <<ctx, sent, accepted, rejected>>

\* A blob as it was sealed, or altered without changing its length.  `intact' is about
\* the bytes unseal reads, the checksum and the ciphertext: an alteration of Version or
\* SeqNum, which it never looks at, is a delivery of the blob as it was.
Deliver(r) ==
  \E s \in Role : \E i \in 1..Len(sent[s]) : \E ok \in BOOLEAN :
     unseal(r, [sent[s][i] EXCEPT !.intact = ok])

SealNext == \E r \in Role : (\E m \in Msg : seal(r, m)) \/ Deliver(r) \/ unsealShort(r)

SealSpec == SealInit /\ [][SealNext]_sealVars

-----------------------------------------------------------------------------
\* The plaintext of the i-th message a role sealed
SentMsg(r, i) == sent[r][i].msg

\* Whatever is delivered, the plaintexts unseal returns are the messages the
\* peer sealed, from the first on, in order, none twice and none skipped
\* (sspi.rs, unseal: sequence number and keystream in lockstep).
AcceptedIsPrefix ==
  \A r \in Role :
    /\ Len(accepted[r]) <= Len(sent[Peer(r)])
    /\ \A i \in 1..Len(accepted[r]) : accepted[r][i] = SentMsg(Peer(r), i)

\* The plaintexts sealed for a role so far
SealedFor(r) == [i \in 1..Len(sent[Peer(r)]) |-> SentMsg(Peer(r), i)]

Sealed == INSTANCE FifoDelivery
            WITH Channel  <- Role,
                 sent     <- [r \in Role |-> SealedFor(r)],
                 received <- accepted

\* The pair of contexts implements ordered delivery in each direction, over a
\* network that repeats, reorders, mixes up and alters what was sealed: nothing a
\* context has returned is ever taken back (sspi.rs, seal and unseal).
DeliversInOrder == Sealed!Spec

\* A checksum mismatch is final: unseal has already moved the keystream but not
\* recv_seq, so from then on the context accepts nothing, not even the blob
\* it expected (sspi.rs, unseal: the early return on a mismatch).
MismatchIsFinal ==
  [][\A r \in Role : rejected[r] => accepted'[r] = accepted[r]]_sealVars

\* A context that has rejected nothing opens the next message its peer sealed:
\* sequence numbers and handles advance together, across wrap-around
\* (sspi.rs, seal and unseal; the round trip its tests try on four messages).
NextIsAccepted ==
  \A r \in Role :
     ~rejected[r] /\ Len(accepted[r]) < Len(sent[Peer(r)])
        => Verifies(ctx[r], sent[Peer(r)][Len(accepted[r]) + 1])

-----------------------------------------------------------------------------
(***************************************************************************)
(* The inductive invariant.  PosAt(blobs, own, i) is where the keystream   *)
(* of a sender stands when its i-th message is sealed, already or next.    *)
(***************************************************************************)
PosAt(blobs, own, i) == IF i <= Len(blobs) THEN blobs[i].at ELSE own

\* Where the message r expects next begins in its peer's keystream
Expected(r) == PosAt(sent[Peer(r)], ctx[Peer(r)].own_seal, Len(accepted[r]) + 1)

\* Blobs laid end to end along the keystream of a role, up to where it stands
LaidOut(r, blobs, own) ==
  \A i \in 1..Len(blobs) :
    /\ blobs[i].key = r
    /\ blobs[i].intact
    /\ blobs[i].seq = (i - 1) % SeqMod
    /\ AfterChecksum(blobs[i].at, blobs[i].len) = PosAt(blobs, own, i + 1)
    /\ \A j \in (i + 1)..(Len(blobs) + 1) :
         AfterChecksum(blobs[i].at, blobs[i].len) <= PosAt(blobs, own, j)

\* A sender is at most SeqMod messages ahead of what its peer has accepted
SenderInv ==
  \A r \in Role :
    /\ ctx[r].role = r
    /\ ctx[r].send_seq = Len(sent[r]) % SeqMod
    /\ Len(sent[r]) <= Len(accepted[Peer(r)]) + SeqMod
    /\ LaidOut(r, sent[r], ctx[r].own_seal)

\* A receiver stands at the next message it expects, or, after a mismatch,
\* strictly beyond it
ReceiverInv ==
  \A r \in Role :
    /\ ctx[r].recv_seq = Len(accepted[r]) % SeqMod
    /\ ~rejected[r] => ctx[r].peer_seal = Expected(r)
    /\ rejected[r]  => ctx[r].peer_seal > Expected(r)

SealIInv == SealTypeOK /\ SenderInv /\ ReceiverInv /\ AcceptedIsPrefix
=============================================================================
