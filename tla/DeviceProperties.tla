-------------------------- MODULE DeviceProperties --------------------------
(* What installations that share a folder may rely on. *)
EXTENDS Devices

(* A commit replaces another device's recent HEAD only if that HEAD was    *)
(* written during the commit itself, after its second look (commitSnapshot *)
(* checks again before the manifest).  Recent is by true time: clocks may  *)
(* differ by what verifyNoConflict allows.                                 *)
SecondCheckProtects ==
    [][\A d \in Devices :
           PutHead(d) /\ head.by \ {d} # {} /\ clock - head.on <= Window - MaxSkew
               => head.n > run[d].seen]_vars

(* A device that opens on a folder of another vault writes nothing to it   *)
(* until the folder changes hands or the user adopts its id, whether the   *)
(* probe or a run finds out (checkConsistency, assertVaultOwnership).      *)
StrangersWriteNothing ==
    [][\A d \in Devices :
           PutManifest(d) /\ meta.n = session[d].at.n
               => session[d].at.id \in {NoVault, data[d].id}]_vars

(* A folder is claimed only by a run that found it unclaimed when it       *)
(* began, however many runs the session had before (the session cache).    *)
ClaimsOnlyFresh ==
    [][\A d \in Devices : Claim(d) => run[d].absent]_vars

(* Saving the settings never changes the vault id, and saving the id never *)
(* changes the settings, in whatever order they are called for and done    *)
(* (enqueueDataJsonUpdate).                                                *)
DataJsonKeepsBoth ==
    [][\A d \in Devices :
           /\ SaveData(d, "settings") => data'[d].id = data[d].id
           /\ SaveData(d, "id") => data'[d].settings = data[d].settings]_vars

=============================================================================
