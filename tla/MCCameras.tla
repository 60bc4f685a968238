------------------------------ MODULE MCCameras ------------------------------
(* Small instances of Cameras for TLC.  The source atN1 is rtsp://host/n1:   *)
(* its path is the name n1.                                                  *)
EXTENDS Cameras

CONSTANTS i1, i2, n1, n2, plain, atN1, movedN1, bad

Links == [s \in Sources |-> IF s \in {atN1, movedN1} THEN n1 ELSE NoName]
NameOf == [id \in Ids |-> IF id = i1 THEN n1 ELSE n2]

Cam(n, s) == [stream |-> n, url |-> s]

(* Left to the generated name, and typed with an unsupported URL.  *)
SomeBodies == {Cam(NoName, atN1), Cam(n1, bad)}

(* One backup has an unsupported camera next to a good one. *)
SomeBackups == {[id \in Ids |-> IF id = i1 THEN Cam(n1, bad) ELSE Cam(n2, atN1)]}

(* One camera whose address changes and whose path stays. *)
MovingBodies == {Cam(n1, atN1), Cam(n1, movedN1)}
=============================================================================
