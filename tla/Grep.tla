-------------------------------- MODULE Grep --------------------------------
(***************************************************************************)
(* grep (ece391grep.c): every file of the directory is read through one     *)
(* buffer, and a line that the buffer cuts is moved to its front before the *)
(* next read.                                                               *)
(***************************************************************************)
EXTENDS Shell

CONSTANT BUFSIZE

\* A byte of data that was never written: whatever was on the stack
UNWRITTEN == "unwritten"

program == <<bootVars, shellVars, typed>>

GrepStarts ==
  /\ at = "grep"
  /\ \/ getargs_fails(ARGSIZE) /\ Exits(<<"could not read argument\n">>, 3)
     \/ /\ ~getargs_fails(ARGSIZE)
        /\ system_open(<<".">>)
        /\ Goes("grep.directory", [dir |-> open_returns(<<".">>)]) /\ Quiet
  /\ UNCHANGED <<program, unlucky>>

Entry == read_returns(my.dir, FILE_NAME_LENGTH, <<>>)
Name(entry) == Text(CString(entry.data), 0)

GrepEnds ==
  /\ at = "grep.directory" /\ Entry.value = 0
  /\ Exits(<<>>, 0)
  /\ UNCHANGED <<program, unlucky>>
GrepNext ==
  /\ at = "grep.directory" /\ Entry.value # 0
  /\ system_read(my.dir, FILE_NAME_LENGTH)
  /\ IF Entry.data[1] = "." THEN Goes("grep.directory", my)
     ELSE Goes("grep.open", [dir |-> my.dir, fname |-> Name(Entry)])
  /\ UNCHANGED <<program, unlucky, out>>

\* do_one_file
GrepOpens ==
  /\ at = "grep.open"
  /\ system_open(my.fname)
  /\ Goes("grep.read",
          [dir |-> my.dir, fname |-> my.fname, fd |-> open_returns(my.fname),
           data |-> [i \in 0..BUFSIZE |-> UNWRITTEN], last |-> 0])
  /\ UNCHANGED <<program, unlucky, out>>

GrepReads ==
  /\ at = "grep.read"
  /\ LET got == read_returns(my.fd, BUFSIZE - my.last, <<>>)
     IN  Goes("grep.line",
              [dir |-> my.dir, fname |-> my.fname, fd |-> my.fd,
               data |-> [i \in 0..BUFSIZE |->
                           IF i - my.last \in 0..(got.value - 1)
                           THEN got.data[i - my.last + 1] ELSE my.data[i]],
               last |-> my.last + got.value, cnt |-> got.value, line_start |-> 0])
  /\ system_read(my.fd, BUFSIZE - my.last)
  /\ UNCHANGED <<program, unlucky, out>>

\* The line at line_start, and whether a newline, or a byte taken for one,
\* is behind it
line_end == Min({i \in my.line_start..my.last : i = my.last \/ my.data[i] = NL})
Ended == IF my.data[line_end] = UNWRITTEN THEN {TRUE, FALSE} ELSE {my.data[line_end] = NL}
Terminated == [my.data EXCEPT ![line_end] = NUL]

Found ==
  LET pattern == args.text
      m == [a \in 0..(BUFSIZE + 1 + Len(pattern)) |->
              IF a <= BUFSIZE THEN Terminated[a] ELSE CString(pattern)[a - BUFSIZE - 1]]
  IN  \E check \in my.line_start..(line_end - 1) :
        /\ CString(pattern)[0] = my.data[check]
        /\ ece391_strncmp(m, check, BUFSIZE + 1, Len(pattern))

\* Slip: what the buffer cuts is taken for a line.
CarriesOverNothing(ended) == FALSE

CarriesOver(ended) == ~ended /\ my.cnt # 0 /\ my.line_start # 0

GrepMovesRest ==
  /\ at = "grep.line"
  /\ \E ended \in Ended : CarriesOver(ended)
  /\ Goes("grep.read",
          [dir |-> my.dir, fname |-> my.fname, fd |-> my.fd,
           data |-> strcpy(Terminated, 0, my.line_start),
           last |-> my.last - my.line_start])
  /\ UNCHANGED <<program, fileVars, unlucky, out>>

\* The break of the inner loop, and after the last read of the outer one
NextLine ==
  IF line_end + 1 < my.last
  THEN Goes("grep.line", [my EXCEPT !.data = Terminated, !.line_start = line_end + 1])
  ELSE Goes(IF my.cnt = 0 THEN "grep.close" ELSE "grep.read",
            [dir |-> my.dir, fname |-> my.fname, fd |-> my.fd,
             data |-> Terminated, last |-> 0])
GrepSearches ==
  /\ at = "grep.line"
  /\ \E ended \in Ended :
       /\ ~CarriesOver(ended)
       /\ unlucky' = (unlucky \/ (/\ CarriesOver(FALSE) /\ ended /\ my.last = BUFSIZE
                                  /\ my.data[line_end] = UNWRITTEN))
  /\ Prints(IF Found THEN my.fname \o <<":">> \o Text(Terminated, my.line_start) \o <<NL>>
            ELSE <<>>)
  /\ NextLine
  /\ UNCHANGED <<program, fileVars>>

GrepCloses ==
  /\ at = "grep.close"
  /\ system_close(my.fd)
  /\ Goes("grep.directory", [dir |-> my.dir])
  /\ UNCHANGED <<program, unlucky, out>>

GrepStep ==
  \/ GrepStarts \/ GrepEnds \/ GrepNext \/ GrepOpens \/ GrepReads
  \/ GrepMovesRest \/ GrepSearches \/ GrepCloses

-----------------------------------------------------------------------------
(***************************************************************************)
(* What grep promises: the lines that the pattern occurs in, where a line   *)
(* longer than the buffer counts as several.                                *)
(***************************************************************************)
Cut(pieces, c) ==
  IF c = NL THEN Append(pieces, <<>>)
  ELSE IF Len(Last(pieces)) = BUFSIZE THEN Append(pieces, <<c>>)
  ELSE Append(Front(pieces), Append(Last(pieces), c))
Pieces(text) == FoldLeft(Cut, <<<<>>>>, text)
Occurs(pattern, piece) ==
  pattern # <<>> /\ \E i, j \in DOMAIN piece : SubSeq(piece, i, j) = pattern

Matching(pattern, file) ==
  FlattenSeq([p \in DOMAIN Pieces(file.data) |->
                IF Occurs(pattern, Pieces(file.data)[p])
                THEN file.name \o <<":">> \o Pieces(file.data)[p] \o <<NL>> ELSE <<>>])
GrepPromises(pattern) ==
  FlattenSeq([i \in DOMAIN image |->
                IF image[i].type = "file" THEN Matching(pattern, image[i]) ELSE <<>>])
=============================================================================
