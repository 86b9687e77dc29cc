------------------------------ MODULE Journal -------------------------------
(***************************************************************************)
(* FileJournal: one JSON entry a line, appended by calls that overlap and  *)
(* numbered by a counter that lives as long as the process, while the file *)
(* stays.                                                                  *)
(*                                                                         *)
(* An append waits twice, for mkdir and for appendFile; what it does in    *)
(* between is one step.  appendFile may stop short, because the disk is    *)
(* full or the process ends: it leaves nothing, a part of the line ("cut") *)
(* or the line without its newline ("bare").  The file is the sequence of  *)
(* what the appends left; text without a newline at its end runs into what *)
(* follows.                                                                *)
(***************************************************************************)
EXTENDS Naturals, Sequences

CONSTANTS
    Writers,        \* overlapping calls of append
    MaxAppends,     \* bound: calls made
    MaxLives        \* bound: processes, one after the other

VARIABLES
    file,           \* what is on disk
    seq,            \* of the present process
    pc,             \* writer -> "idle", or what it waits for
    entry,          \* writer -> its entry, stamped after the first wait
    life,           \* history: which process this is
    begun,          \* history: number of calls so far
    call,           \* history: writer -> its call, with the calls that had returned before it
    returned,       \* history: calls that returned their entry
    torn            \* history: some appendFile stopped short

journalVars == <<file, seq, pc, entry, life, begun, call, returned, torn>>

NoCall  == [id |-> 0, after |-> {}]
NoEntry == [seq |-> 0, life |-> 0, id |-> 0, after |-> {}]

JournalInit ==
    /\ file = << >> /\ seq = 0
    /\ pc = [w \in Writers |-> "idle"]
    /\ entry = [w \in Writers |-> NoEntry]
    /\ life = 1 /\ begun = 0
    /\ call = [w \in Writers |-> NoCall]
    /\ returned = {} /\ torn = FALSE

-----------------------------------------------------------------------------
(* append                                                                  *)

Goto(w, label) == pc' = [pc EXCEPT ![w] = label]

\* append is called and waits for mkdir.
AppendCalled(w) ==
    /\ pc[w] = "idle" /\ begun < MaxAppends
    /\ begun' = begun + 1
    /\ call' = [call EXCEPT ![w] = [id |-> begun + 1, after |-> returned]]
    /\ Goto(w, "mkdir")
    /\ UNCHANGED <<file, seq, entry, life, returned, torn>>

\* The entry with number n.
Entry(w, n) == [seq |-> n, life |-> life, id |-> call[w].id, after |-> call[w].after]

\* Faulty variant: the number is taken from the entries that are on disk already.
StampedLate(w) ==
    /\ seq' = Len(SelectSeq(file, LAMBDA l : l.entry.life = life)) + 1
    /\ entry' = [entry EXCEPT ![w] = Entry(w, seq')]

\* The entry takes the next number and is handed to appendFile, without a wait.
Stamped(w) ==
    /\ seq' = seq + 1
    /\ entry' = [entry EXCEPT ![w] = Entry(w, seq + 1)]

MkdirDone(w) ==
    /\ pc[w] = "mkdir"
    /\ Stamped(w)
    /\ Goto(w, "write")
    /\ UNCHANGED <<file, life, begun, call, returned, torn>>

\* appendFile adds the whole line.
Written(w) ==
    /\ pc[w] = "write"
    /\ file' = Append(file, [entry |-> entry[w], text |-> "whole"])
    /\ Goto(w, "written")
    /\ UNCHANGED <<seq, entry, life, begun, call, returned, torn>>

\* appendFile stops short.
WrittenShort(w, text) ==
    /\ pc[w] = "write"
    /\ file' = IF text = "nothing" THEN file
               ELSE Append(file, [entry |-> entry[w], text |-> text])
    /\ torn' = (torn \/ text # "nothing")
    /\ Goto(w, "failed")
    /\ UNCHANGED <<seq, entry, life, begun, call, returned>>

\* The call returns its entry.
AppendReturns(w) ==
    /\ pc[w] = "written"
    /\ returned' = returned \cup {call[w].id}
    /\ Goto(w, "idle")
    /\ UNCHANGED <<file, seq, entry, life, begun, call, torn>>

\* The call rejects: mkdir or appendFile did.
AppendRejects(w) ==
    /\ pc[w] \in {"mkdir", "failed"}
    /\ Goto(w, "idle")
    /\ UNCHANGED <<file, seq, entry, life, begun, call, returned, torn>>

\* The process ends at any point, and the next one makes a new FileJournal.
Restart ==
    /\ life < MaxLives
    /\ life' = life + 1
    /\ seq' = 0
    /\ pc' = [w \in Writers |-> "idle"]
    /\ UNCHANGED <<file, entry, begun, call, returned, torn>>

JournalNext ==
    \/ \E w \in Writers :
          \/ AppendCalled(w) \/ MkdirDone(w) \/ Written(w)
          \/ AppendReturns(w) \/ AppendRejects(w)
          \/ \E text \in {"nothing", "cut", "bare"} : WrittenShort(w, text)
    \/ Restart

JournalSpec == JournalInit /\ [][JournalNext]_journalVars

-----------------------------------------------------------------------------
(* readAll                                                                 *)

\* Every line between two newlines is the text of one entry.
Parses ==
    \A i \in DOMAIN file : \/ file[i].text = "whole"
                           \/ file[i].text = "bare" /\ i = Len(file)

\* One line that does not parse, and the catch answers with no entries at all.
ReadAll == IF Parses THEN [i \in DOMAIN file |-> file[i].entry] ELSE << >>

-----------------------------------------------------------------------------
(* Property.                                                               *)

\* As long as no append stopped short, readAll gives every entry whose append
\* returned, once, before or after any number of restarts; the entries of one
\* process have distinct numbers, and what was appended after another append had
\* returned has the larger number and comes later, however the calls overlap.
JournalIsKept ==
    LET all == ReadAll IN
    /\ ~ torn => returned \subseteq {all[i].id : i \in DOMAIN all}
    /\ \A i, j \in DOMAIN all :
         /\ all[i].id = all[j].id => i = j
         /\ all[i].life = all[j].life /\ all[i].seq = all[j].seq => i = j
         /\ all[i].id \in all[j].after =>
               /\ i < j
               /\ all[i].life = all[j].life => all[i].seq < all[j].seq
=============================================================================
