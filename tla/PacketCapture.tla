---------------------------- MODULE PacketCapture ----------------------------
(* The capture of packets on demand (pktcapture): a capture runs tcpdump into *)
(* a file until its limit, reads the file back and keeps it, or not, for an   *)
(* hour. The service keeps one capture, the last one started; what a request  *)
(* looks at before it starts is looked at outside of the lock that starts it. *)
EXTENDS Naturals, FiniteSets

CONSTANTS
    CaptureAsks,       \* requests to start a capture
    CaptureSeconds,    \* the seconds they come in: a capture is named for its own
    MaxCaptureEvents   \* bound on stops, expiries and restarts

ASSUME CaptureAssumption == CaptureSeconds \in Nat \ {0} /\ MaxCaptureEvents \in Nat

VARIABLES
    captures,      \* what became of each request
    activeCapture, \* the request whose capture the service keeps: at most one
    second,        \* the clock: captures of one second have one name
    pcaps,         \* the files in the directory
    expired,       \* those of them older than an hour
    strays,        \* history: files that a failure or a restart left behind
    captureEvents

captureVars == <<captures, activeCapture, second, pcaps, expired, strays, captureEvents>>

NoCapture == [at |-> "none", file |-> 0, keep |-> FALSE, stopped |-> FALSE, hasFile |-> FALSE]
UnderWay == {"running", "captured", "read"}
Over == {"done", "aborted", "error"}

CaptureInit ==
    /\ captures = [r \in CaptureAsks |-> NoCapture]
    /\ activeCapture = {} /\ second = 1
    /\ pcaps = {} /\ expired = {} /\ strays = {}
    /\ captureEvents = 0

Becomes(r, c) == captures' = [captures EXCEPT ![r] = c]
CaptureEvent == captureEvents < MaxCaptureEvents /\ captureEvents' = captureEvents + 1
DiskStays == UNCHANGED <<pcaps, expired, strays>>

\* Two captures of one second write to one file.
Shared(r) == \E d \in CaptureAsks \ {r} : captures[d].at # "none" /\ captures[d].file = captures[r].file

-----------------------------------------------------------------------------
\* Start refuses a request while the capture it keeps is running; the lock is
\* released before the fields are validated, and a bad field refuses as well.
AsksCapture(r) ==
    /\ captures[r].at = "none"
    /\ \A a \in activeCapture : captures[a].at \notin UnderWay
    /\ \E keep \in BOOLEAN : Becomes(r, [NoCapture EXCEPT !.at = "asked", !.keep = keep])
    /\ DiskStays /\ UNCHANGED <<activeCapture, second, captureEvents>>

\* BuildExpr: a filter that is not what was asked for starts nothing.
RefusesFilter(r) ==
    /\ captures[r].at = "asked"
    /\ Becomes(r, [NoCapture EXCEPT !.at = "refused"])
    /\ DiskStays /\ UNCHANGED <<activeCapture, second, captureEvents>>

StartsCapture(r) ==
    /\ captures[r].at = "asked"
    /\ Becomes(r, [captures[r] EXCEPT !.at = "running", !.file = second])
    /\ activeCapture' = {r}
    /\ DiskStays /\ UNCHANGED <<second, captureEvents>>

\* The capture ends at its limit, or stopped; tcpdump may leave nothing.
CaptureCloses(r) ==
    /\ captures[r].at = "running"
    /\ \/ /\ Becomes(r, [captures[r] EXCEPT !.at = "captured"])
          /\ pcaps' = pcaps \cup {captures[r].file} /\ expired' = expired \ {captures[r].file}
       \/ /\ Becomes(r, [captures[r] EXCEPT !.at = "error"])
          /\ pcaps' = pcaps \ {captures[r].file} /\ expired' = expired \ {captures[r].file}
    /\ UNCHANGED <<activeCapture, second, strays, captureEvents>>

\* readBack: where the file cannot be read, it stays.
ReadsBack(r) ==
    /\ captures[r].at = "captured"
    /\ \/ /\ Becomes(r, [captures[r] EXCEPT !.at = "read", !.hasFile = captures[r].keep])
          /\ UNCHANGED strays
       \/ /\ Becomes(r, [captures[r] EXCEPT !.at = "error"])
          /\ strays' = strays \cup {captures[r].file}
    /\ UNCHANGED <<activeCapture, second, pcaps, expired, captureEvents>>

\* What was not to be kept is removed, and the capture is over.
FinishesCapture(r) ==
    /\ captures[r].at = "read"
    /\ Becomes(r, [captures[r] EXCEPT !.at = IF captures[r].stopped THEN "aborted" ELSE "done"])
    /\ IF captures[r].keep THEN UNCHANGED <<pcaps, expired>>
       ELSE pcaps' = pcaps \ {captures[r].file} /\ expired' = expired \ {captures[r].file}
    /\ UNCHANGED <<activeCapture, second, strays, captureEvents>>

\* Stop cancels the capture started last.
StopsCapture ==
    /\ CaptureEvent
    /\ \E a \in activeCapture :
         captures[a].at = "running" /\ ~captures[a].stopped /\ Becomes(a, [captures[a] EXCEPT !.stopped = TRUE])
    /\ DiskStays /\ UNCHANGED <<activeCapture, second>>

\* Mutant: the files go, and the capture in memory is not told.
StillOffered(gone) == captures

\* The capture kept in memory stops offering the file that went.
NotOffered(gone) ==
    [r \in CaptureAsks |-> IF r \in activeCapture /\ captures[r].file \in gone
                             THEN [captures[r] EXCEPT !.hasFile = FALSE] ELSE captures[r]]

\* Sweep, at each Status: what is older than an hour goes; a removal may fail.
Sweeps ==
    /\ expired # {}
    /\ \E gone \in SUBSET expired :
         /\ gone # {}
         /\ pcaps' = pcaps \ gone /\ expired' = expired \ gone /\ strays' = strays \ gone
         /\ captures' = NotOffered(gone)
    /\ UNCHANGED <<activeCapture, second, captureEvents>>

\* An hour passes for a file that nothing writes to: a capture is far shorter.
HourPasses ==
    /\ CaptureEvent
    /\ \E f \in pcaps \ expired :
         /\ \A r \in CaptureAsks : captures[r].file = f => captures[r].at \notin UnderWay
         /\ expired' = expired \cup {f}
    /\ UNCHANGED <<captures, activeCapture, second, pcaps, strays>>

SecondPasses ==
    /\ second < CaptureSeconds /\ second' = second + 1
    /\ DiskStays /\ UNCHANGED <<captures, activeCapture, captureEvents>>

\* A restart ends the captures with the service; the files stay, and those
\* older than an hour are swept as it starts.
CaptureRestart ==
    /\ CaptureEvent
    /\ captures' = [r \in CaptureAsks |->
                     IF captures[r].at \in {"asked"} \cup UnderWay THEN [NoCapture EXCEPT !.at = "error"]
                     ELSE [captures[r] EXCEPT !.hasFile = FALSE, !.keep = FALSE]]
    /\ \E left \in SUBSET {captures[r].file : r \in {d \in CaptureAsks : captures[d].at = "running"}} :
         pcaps' = (pcaps \ expired) \cup left
    /\ expired' = {} /\ strays' = pcaps' /\ activeCapture' = {}
    /\ UNCHANGED second

CaptureNext ==
    \/ \E r \in CaptureAsks :
         \/ AsksCapture(r) \/ RefusesFilter(r) \/ StartsCapture(r)
         \/ CaptureCloses(r) \/ ReadsBack(r) \/ FinishesCapture(r)
    \/ StopsCapture \/ Sweeps \/ HourPasses \/ SecondPasses \/ CaptureRestart

CaptureSpec == CaptureInit /\ [][CaptureNext]_captureVars

-----------------------------------------------------------------------------
\* Type invariant of the captures.
CaptureTypeOK ==
    /\ \A r \in CaptureAsks :
         /\ captures[r].at \in {"none", "asked", "refused"} \cup UnderWay \cup Over
         /\ captures[r].file \in 0..CaptureSeconds
    /\ activeCapture \subseteq CaptureAsks /\ Cardinality(activeCapture) <= 1
    /\ pcaps \subseteq 1..CaptureSeconds /\ expired \subseteq pcaps

\* The panel offers a file for download only while it is there, unless another
\* capture of the same second shared it.
OfferedIsThere ==
    \A r \in activeCapture : (captures[r].hasFile /\ ~Shared(r)) => captures[r].file \in pcaps

\* A file that nobody asked to keep does not stay: with no capture under way,
\* each one was asked for, or a failure or a restart left it, until it is swept.
TemporaryGoes ==
    (\A r \in CaptureAsks : captures[r].at \notin UnderWay) =>
      \A f \in pcaps : f \in strays \/ \E r \in CaptureAsks : captures[r].file = f /\ captures[r].keep

\* "O servico roda uma captura por vez" (pktcapture.go, type Service). Two
\* requests that looked before either started run at once.
OneCaptureAtATime == Cardinality({r \in CaptureAsks : captures[r].at \in UnderWay}) <= 1
=============================================================================
