------------------------------ MODULE OpenFiles --------------------------------
(* What a file system promises the holders of its handles: a handle that a      *)
(* caller opened reaches one file, the same one until the caller itself closes  *)
(* it, whatever the other callers open and close and whatever files come and go.*)
CONSTANTS Clients, Files, None

VARIABLE reaches  \* the file each client's open handle leads to, None if it has none

Init == reaches = [c \in Clients |-> None]

Open(c, f) == reaches[c] = None /\ reaches' = [reaches EXCEPT ![c] = f]

Close(c) == reaches[c] # None /\ reaches' = [reaches EXCEPT ![c] = None]

Next == \E c \in Clients : Close(c) \/ \E f \in Files : Open(c, f)

Spec == Init /\ [][Next]_reaches
==============================================================================
