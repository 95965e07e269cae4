-------------------------------- MODULE Sspi --------------------------------
(***************************************************************************)
(* The NTLM confidentiality context of nla/sspi.rs as operators on a       *)
(* record: a context signs and seals what it sends and verifies and opens  *)
(* what it receives.                                                       *)
(*                                                                         *)
(* RC4 is a stream cipher, so what matters of a handle is which key it was *)
(* built from and how far its keystream has advanced.  The cryptography is *)
(* symbolic: a ciphertext opens only with the key and at the keystream     *)
(* position it was sealed with, and a checksum matches only for the key,   *)
(* the sequence number and the plaintext it was computed from.             *)
(***************************************************************************)
EXTENDS Integers

CONSTANT SeqMod            \* 2^32 in the code: send_seq and recv_seq are u32
ASSUME SeqModAssumption == SeqMod \in Nat \ {0}

\* enum Role; each role names the signing and the sealing key of its direction
Role == {"Client", "Server"}
Peer(r) == IF r = "Client" THEN "Server" ELSE "Client"

CHECKSUM_LEN == 8          \* keystream bytes the checksum consumes

wrapping_add1(s) == (s + 1) % SeqMod

-----------------------------------------------------------------------------
\* struct SecurityContext: `role' stands for the four derived keys, own_seal
\* and peer_seal for the positions of the two RC4 handles
SecurityContext == [role : Role, own_seal : Nat, peer_seal : Nat,
                    send_seq : 0..(SeqMod - 1), recv_seq : 0..(SeqMod - 1)]

NewContext(role) ==
  [role |-> role, own_seal |-> 0, peer_seal |-> 0, send_seq |-> 0, recv_seq |-> 0]

\* What checksum() consumes of a handle, after a message of n bytes
AfterChecksum(pos, n) == pos + n + CHECKSUM_LEN

(***************************************************************************)
(* seal: encrypt, checksum on the same handle, then step send_seq.  The    *)
(* sealed blob records the key, sequence number and position it was made   *)
(* with; `intact' turns FALSE when its bytes are altered on the way.       *)
(***************************************************************************)
SealedBlob(ctx, msg, n) ==
  [key |-> ctx.role, seq |-> ctx.send_seq, at |-> ctx.own_seal,
   msg |-> msg, len |-> n, intact |-> TRUE]

\* Mutant: the checksum is not taken from the persistent handle
AfterSealMessageOnly(ctx, n) ==
  [role |-> ctx.role, own_seal |-> ctx.own_seal + n, peer_seal |-> ctx.peer_seal,
   send_seq |-> wrapping_add1(ctx.send_seq), recv_seq |-> ctx.recv_seq]

\* Mutant: every message is sealed with a copy of the first handle
AfterSealCopiedHandle(ctx, n) ==
  [role |-> ctx.role, own_seal |-> ctx.own_seal, peer_seal |-> ctx.peer_seal,
   send_seq |-> wrapping_add1(ctx.send_seq), recv_seq |-> ctx.recv_seq]

AfterSeal(ctx, n) ==
  [role      |-> ctx.role,
   own_seal  |-> AfterChecksum(ctx.own_seal, n),
   peer_seal |-> ctx.peer_seal,
   send_seq  |-> wrapping_add1(ctx.send_seq),
   recv_seq  |-> ctx.recv_seq]

\* Mutant: one signing and one sealing key for both directions
VerifiesAnyRole(ctx, blob) ==
  blob.intact /\ blob.seq = ctx.recv_seq /\ blob.at = ctx.peer_seal

\* unseal: the recomputed checksum equals the one of the blob
Verifies(ctx, blob) ==
  /\ blob.intact
  /\ blob.key = Peer(ctx.role)
  /\ blob.seq = ctx.recv_seq
  /\ blob.at  = ctx.peer_seal

\* Mutant: a mismatch puts the handle back
AfterUnsealRestored(ctx, blob) ==
  IF Verifies(ctx, blob)
  THEN [role |-> ctx.role, own_seal |-> ctx.own_seal,
        peer_seal |-> AfterChecksum(ctx.peer_seal, blob.len),
        send_seq |-> ctx.send_seq, recv_seq |-> wrapping_add1(ctx.recv_seq)]
  ELSE ctx

\* Mutant: recv_seq is stepped before the comparison
AfterUnsealStepped(ctx, blob) ==
  [role |-> ctx.role, own_seal |-> ctx.own_seal,
   peer_seal |-> AfterChecksum(ctx.peer_seal, blob.len),
   send_seq |-> ctx.send_seq, recv_seq |-> wrapping_add1(ctx.recv_seq)]

(***************************************************************************)
(* unseal of a blob of at least 16 bytes.  Both the decryption and the     *)
(* checksum advance peer_seal before the comparison; recv_seq is stepped   *)
(* only after it, so a mismatch leaves the position moved and the number   *)
(* where it was.                                                           *)
(***************************************************************************)
AfterUnseal(ctx, blob) ==
  [role      |-> ctx.role,
   own_seal  |-> ctx.own_seal,
   peer_seal |-> AfterChecksum(ctx.peer_seal, blob.len),
   send_seq  |-> ctx.send_seq,
   recv_seq  |-> IF Verifies(ctx, blob) THEN wrapping_add1(ctx.recv_seq)
                                        ELSE ctx.recv_seq]
=============================================================================
