------------------------------- MODULE Camera -------------------------------
(***************************************************************************)
(* server/Camera: the gphoto2 camera the server operates, and the two      *)
(* lists of libgphoto2 it caches for the life of the process.              *)
(*                                                                         *)
(* Each list is a static pointer, null at first.  The first use creates    *)
(* the list and loads it; either may fail, and a list that was created but *)
(* not loaded stays in the cache.                                          *)
(***************************************************************************)
EXTENDS Naturals, Sequences

CONSTANTS
  Models,   \* models libgphoto2 has a driver for
  Ports     \* ports it knows

VARIABLES
  abilitiesList,  \* the static pointers: "null", "new" (never loaded)
  portInfoList,   \* or "loaded"
  model,          \* the abilities and the port set in camera_, <<>> before
  port            \* the first time

cameraVars == <<abilitiesList, portInfoList, model, port>>

Lists == {"null", "new", "loaded"}

CameraInit ==
  /\ abilitiesList = "null"
  /\ portInfoList = "null"
  /\ model = <<>>
  /\ port = <<>>

(* What a cache may hold after a call that finds it holding list: creating *)
(* the list fails, loading it fails, or it is there.                       *)
AfterUse(list) == IF list = "null" THEN Lists ELSE {list}

(* What a call that returns leaves in a cache: a list that it has created  *)
(* and loaded, or the one it found, of which it asks only that it is there.*)
Returned(list) == IF list = "null" THEN "loaded" ELSE list

(* setAbilities succeeds.  A list that failed to load may hold any of the  *)
(* models, so that looking one up in it succeeds or fails.                 *)
SetAbilities(m) ==
  /\ m \in Models
  /\ abilitiesList' = Returned(abilitiesList)
  /\ model' = m

(* setAbilities throws: no list, an unknown model, an error of libgphoto2. *)
SetAbilitiesThrows ==
  /\ abilitiesList' \in AfterUse(abilitiesList)
  /\ UNCHANGED model

SetPortInfo(p) ==
  /\ p \in Ports
  /\ portInfoList' = Returned(portInfoList)
  /\ port' = p

SetPortInfoThrows ==
  /\ portInfoList' \in AfterUse(portInfoList)
  /\ UNCHANGED port

(* selectCamera: first the abilities, then the port.  When it throws, the  *)
(* abilities may already be those of the new camera.                       *)
SelectCamera(m, p) == SetAbilities(m) /\ SetPortInfo(p)

SelectCameraThrows(m) ==
  \/ SetAbilitiesThrows /\ UNCHANGED <<portInfoList, port>>
  \/ SetAbilities(m) /\ SetPortInfoThrows

=============================================================================
