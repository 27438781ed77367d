------------------------------- MODULE Marks -------------------------------
(***************************************************************************)
(* The table of marked memory locations.  mark() does not disable          *)
(* interrupts: processes interleave between any two accesses, and only the *)
(* last statement is in a critical section.                                *)
(***************************************************************************)
EXTENDS Integers

CONSTANTS
  Markers,    \* processes that call mark()
  Locs,       \* memory locations
  MAXMARK,    \* entries of marks[]
  ADDRESS     \* what a pointer is, read as a number

VARIABLES
  loc,        \* the contents of each location
  marks,      \* marks[]
  nmarks,     \* number of marked locations
  mkmutex,    \* count of the mutual exclusion semaphore
  mutexlost,  \* the variable mkmutex does not hold its semaphore any more
  at,         \* where each process is in mark()
  arg,        \* the argument of mark()
  marked      \* history: locations for which mark() has returned OK

markVars == <<loc, marks, nmarks, mkmutex, mutexlost, at, arg, marked>>

NULL == "NULL"

\* No pointer is as small as an index of marks[].
ASSUME MarkAssumption ==
  /\ NULL \notin Locs
  /\ MAXMARK \in Nat \ {0}
  /\ ADDRESS \in Nat /\ ADDRESS > MAXMARK

Entries == 0..(MAXMARK - 1)

\* A location holds anything before it is marked.
MarkInit ==
  /\ loc \in [Locs -> Entries \cup {-1}]
  /\ marks = [i \in Entries |-> NULL]
  /\ nmarks = 0
  /\ mkmutex = 1
  /\ mutexlost = FALSE
  /\ at = [p \in Markers |-> "user"]
  /\ arg = [p \in Markers |-> NULL]
  /\ marked = {}

\* The comparison with an entry behind marks[] reads whatever lies there: it may
\* come out either way.
numbered(l) == loc[l] \in 0..(nmarks - 1)
notmarked(l) == ~(numbered(l) /\ loc[l] < MAXMARK /\ marks[loc[l]] = l)
ismarked(l) == numbered(l) /\ (loc[l] < MAXMARK => marks[loc[l]] = l)

goto(p, here, there) == at[p] = here /\ at' = [at EXCEPT ![p] = there]

\* The two tests are made before the critical section.
mark_test(p, l) ==
  /\ at[p] = "user"
  /\ arg' = [arg EXCEPT ![p] = l]
  /\ \/ notmarked(l) /\ goto(p, "user", "room") /\ UNCHANGED marked
     \/ ismarked(l) /\ marked' = marked \cup {l} /\ UNCHANGED at
  /\ UNCHANGED <<loc, marks, nmarks, mkmutex, mutexlost>>

mark_room(p) ==
  /\ goto(p, "room", IF nmarks >= MAXMARK THEN "user" ELSE "wait")
  /\ UNCHANGED <<loc, marks, nmarks, mkmutex, mutexlost, arg, marked>>

\* With a pointer for a semaphore wait() returns SYSERR at once.
mark_wait(p) ==
  /\ goto(p, "wait", "number")
  /\ \/ ~mutexlost /\ mkmutex > 0 /\ mkmutex' = mkmutex - 1
     \/ mutexlost /\ UNCHANGED mkmutex
  /\ UNCHANGED <<loc, marks, nmarks, mutexlost, arg, marked>>

\* (Variant: the number is counted up first.)
mark_number_first(p) ==
  /\ goto(p, "number", "enter")
  /\ loc' = [loc EXCEPT ![arg[p]] = nmarks + 1]
  /\ nmarks' = nmarks + 1
  /\ UNCHANGED <<marks, mkmutex, mutexlost, arg, marked>>

\* marks[ (*loc) = nmarks++ ] = loc
mark_number(p) ==
  /\ goto(p, "number", "enter")
  /\ loc' = [loc EXCEPT ![arg[p]] = nmarks]
  /\ nmarks' = nmarks + 1
  /\ UNCHANGED <<marks, mkmutex, mutexlost, arg, marked>>

\* A number that is no index of marks[] overwrites what the linker has put
\* behind it: one of the two other variables of the file, or something else.
overrun ==
  /\ UNCHANGED marks
  /\ \/ nmarks' = ADDRESS /\ UNCHANGED mutexlost
     \/ mutexlost' = TRUE /\ UNCHANGED nmarks
     \/ UNCHANGED <<nmarks, mutexlost>>

mark_enter(p) ==
  /\ goto(p, "enter", "signal")
  /\ IF loc[arg[p]] < MAXMARK
     THEN /\ marks' = [marks EXCEPT ![loc[arg[p]]] = arg[p]]
          /\ UNCHANGED <<nmarks, mutexlost>>
     ELSE overrun
  /\ UNCHANGED <<loc, mkmutex, arg, marked>>

mark_signal(p) ==
  /\ goto(p, "signal", "user")
  /\ mkmutex' = IF mutexlost THEN mkmutex ELSE mkmutex + 1
  /\ marked' = marked \cup {arg[p]}
  /\ UNCHANGED <<loc, marks, nmarks, mutexlost, arg>>

MarkNext ==
  \E p \in Markers :
    \/ \E l \in Locs : mark_test(p, l)
    \/ mark_room(p) \/ mark_wait(p) \/ mark_number(p)
    \/ mark_enter(p) \/ mark_signal(p)

MarkSpec == MarkInit /\ [][MarkNext]_markVars

-----------------------------------------------------------------------------
(* Properties                                                              *)

\* As long as no number was given out beyond the table (mark.c:44), a location for
\* which mark() has returned OK is marked, except while another process, which
\* tested it before, marks it a second time (mark.c:31).
MarkedStays ==
  nmarks <= MAXMARK =>
    \A l \in marked :
      notmarked(l) => \E p \in Markers : at[p] = "enter" /\ arg[p] = l
=============================================================================
