------------------------------- MODULE Codecs -------------------------------
(***************************************************************************)
(* The crate's conversions side by side: the bitmap codecs, the pictures   *)
(* they go into, the NTLM messages, the PDU encodings and the input        *)
(* batches; and beside them the security contexts of sspi.rs and the       *)
(* CredSSP client that seals with one.  They share no state: a behaviour   *)
(* is about one of them.                                                   *)
(***************************************************************************)
EXTENDS Rle, Planar, Screen, NtlmMessages, Wire, InputEvents, SspiChannel, CredSsp

VARIABLE subject           \* what this behaviour is about

pictureVars == <<rleVars, planarVars, screenVars>>
messageVars == <<ntlmVars, wireVars, inputVars>>
contextVars == <<sealVars, vars>>
codecsVars == <<subject, pictureVars, messageVars, contextVars>>

\* The others stay at one of their initial states
CodecsInit ==
  /\ subject \in {"rle", "planar", "screen", "ntlm", "wire", "input", "sspi", "credssp"}
  /\ RleInit /\ PlanarInit /\ ScreenInit /\ NtlmInit /\ WireInit /\ InputInit
  /\ SealInit /\ Init
  /\ subject # "rle" => bitmap = CHOOSE b \in Bitmaps : TRUE
  /\ subject # "planar" => stream = (CHOOSE s \in Streams : TRUE) /\ plan.at = 1
  /\ subject # "ntlm" => account = CHOOSE a \in [domain : Names, user : Names] : TRUE

CodecsNext ==
  \/ /\ subject = "rle" /\ RleNext
     /\ UNCHANGED <<subject, planarVars, screenVars, messageVars, contextVars>>
  \/ /\ subject = "planar" /\ PlanarNext
     /\ UNCHANGED <<subject, rleVars, screenVars, messageVars, contextVars>>
  \/ /\ subject = "screen" /\ ScreenNext
     /\ UNCHANGED <<subject, rleVars, planarVars, messageVars, contextVars>>
  \/ /\ subject = "ntlm" /\ NtlmNext
     /\ UNCHANGED <<subject, pictureVars, wireVars, inputVars, contextVars>>
  \/ /\ subject = "wire" /\ WireNext
     /\ UNCHANGED <<subject, pictureVars, ntlmVars, inputVars, contextVars>>
  \/ /\ subject = "input" /\ InputNext
     /\ UNCHANGED <<subject, pictureVars, ntlmVars, wireVars, contextVars>>
  \/ /\ subject = "sspi" /\ SealNext
     /\ UNCHANGED <<subject, pictureVars, messageVars, vars>>
  \/ /\ subject = "credssp" /\ Next
     /\ UNCHANGED <<subject, pictureVars, messageVars, sealVars>>

CodecsSpec == CodecsInit /\ [][CodecsNext]_codecsVars
=============================================================================
