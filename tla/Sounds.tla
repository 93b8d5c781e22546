------------------------------- MODULE Sounds -------------------------------
(***************************************************************************)
(* The programs that make a sound, beep and music (ece391beep.c,            *)
(* ece391music.c, and the speaker's calls in beep.c), and the two that end  *)
(* in an exception.  A note opens the RTC, waits for so many of its ticks   *)
(* with the speaker on, and closes it: a song is longer than the descriptor *)
(* table.                                                                   *)
(***************************************************************************)
EXTENDS Shell

CONSTANTS
  ARG_LENGTH,      \* characters of the arguments that are looked at
  PIT_FREQUENCY,   \* 1193180
  DURATION_UNIT,   \* a tick in the songs' durations: 30
  BEEP,            \* how long a note of the two scales is: 100
  LongSongs        \* the songs 3 to 6: sequences of notes

-----------------------------------------------------------------------------
(* Arguments.  The rest of the buffer is NULs. *)

Buffer == CString(args.text)
Skipped(i) == Min({j \in DOMAIN Buffer : j >= i /\ Buffer[j] # " "})
EndOfArg(i) ==
  Min({j \in DOMAIN Buffer : j >= i /\ (j >= ARG_LENGTH \/ Buffer[j] \in {" ", NUL})})
Between(i, j) == [k \in 1..(j - i) |-> Buffer[i + k - 1]]

first_arg == Between(Skipped(0), EndOfArg(Skipped(0)))
AfterFirst == Skipped(EndOfArg(Skipped(0)))
second_arg == Between(AfterFirst, EndOfArg(AfterFirst))

\* From the last digit on, in unsigned integers.  -1 is no number, and what
\* atoi returns if there is none.
MINUS_ONE == 2^WIDTH - 1
Digits == SubSeq(lookup, 1, 10)
Digit(c) == SelectInSeq(Digits, LAMBDA d : d = c) - 1
AddDigit(sum, c) ==
  [ret |-> (sum.ret + Digit(c) * sum.power) % 2^WIDTH,
   power |-> (10 * sum.power) % 2^WIDTH]
atoi(text) ==
  IF text = <<>> \/ ~(ToSet(text) \subseteq ToSet(Digits)) THEN MINUS_ONE
  ELSE FoldLeft(AddDigit, [ret |-> 0, power |-> 1], Reverse(text)).ret

-----------------------------------------------------------------------------
(* Songs *)

Note(frequency, time) == [frequency |-> frequency, time |-> time]
tone_t == [Do1H |-> 1047, Re2H |-> 1175, Mi3H |-> 1319, Fa4H |-> 1397, So5H |-> 1568,
           La6H |-> 1760, So5M |-> 784, Silent |-> 0]

Up == <<"Do1H", "Re2H", "Mi3H", "Fa4H", "So5H">>
UpAndDown == Up \o Tail(Reverse(Up))
Star == <<"Do1H", "Do1H", "So5H", "So5H", "La6H", "La6H", "So5H", "Silent",
          "Fa4H", "Fa4H", "Mi3H", "Mi3H", "Re2H", "Re2H", "Do1H">>
Intel == <<"Fa4H", "Fa4H", "Silent", "So5M", "Do1H", "So5M", "Re2H", "Re2H", "Re2H">>

Notes(tones, time) == [i \in DOMAIN tones |-> Note(tone_t[tones[i]], time)]
sound_startup_intel == Notes(Intel, 250)

play_music_with_pu(pu) ==
  [i \in DOMAIN pu |-> Note(pu[i].frequency, pu[i].time \div DURATION_UNIT)]
play_music(music_num) ==
  CASE music_num = 0      -> play_music_with_pu(sound_startup_intel)
    [] music_num = 2      -> Notes(Star, BEEP)
    [] music_num \in 3..6 -> play_music_with_pu(LongSongs[music_num - 2])
    [] OTHER              -> Notes(UpAndDown, BEEP)

Format(program_) ==
  IF program_ = "beep" THEN "input format: <frequency> <time_in_half_sec>\n"
  ELSE "input format: <music_num>\n"
Numbers(program_) ==
  IF program_ = "beep" THEN <<atoi(first_arg), atoi(second_arg)>> ELSE <<atoi(first_arg)>>
Song(program_, numbers) ==
  IF program_ = "beep" THEN <<Note(numbers[1], numbers[2])>> ELSE play_music(numbers[1])

-----------------------------------------------------------------------------
(* The speaker: the lower 16 bits of a divisor, and on or off *)

Divisor(frequency) == (PIT_FREQUENCY \div frequency) % 2^16
system_play_sound(frequency) ==
  IF frequency = 0 THEN <<>> ELSE <<"tone ">> \o itoa(Divisor(frequency), 10)
system_nosound == <<"silence">>

SoundStarts(program_) ==
  /\ at = program_
  /\ IF getargs_fails(ARGSIZE) THEN Exits(<<"could not read arguments\n">>, -1)
     ELSE LET numbers == Numbers(program_)
          IN  IF MINUS_ONE \in ToSet(numbers) THEN Exits(<<Format(program_)>>, -1)
              ELSE Goes("note", [song |-> Song(program_, numbers)])
                   /\ Quiet /\ UNCHANGED fileVars
  /\ Plain

\* A note of no length is passed over, and so is one without the RTC.
SoundEnds == at = "note" /\ my.song = <<>> /\ Exits(<<>>, 0) /\ Plain
NotePassed ==
  /\ at = "note" /\ my.song # <<>>
  /\ Head(my.song).time = 0 \/ ~CanOpen(<<"rtc">>)
  /\ Goes(at, [song |-> Tail(my.song)])
  /\ Quiet /\ UNCHANGED fileVars /\ Plain
NoteOpens ==
  /\ at = "note" /\ my.song # <<>>
  /\ Head(my.song).time # 0 /\ CanOpen(<<"rtc">>)
  /\ system_open(<<"rtc">>)
  /\ Goes("note.rate", [song |-> my.song, rtc_fd |-> open_returns(<<"rtc">>)])
  /\ Quiet /\ Plain
NoteSetsRate ==
  /\ at = "note.rate"
  /\ Says(SetsRate(my.rtc_fd, 32), "note.sound", my)
  /\ Plain
NoteSounds ==
  /\ at = "note.sound"
  /\ Says(system_play_sound(Head(my.song).frequency), "note.wait",
          [song |-> my.song, rtc_fd |-> my.rtc_fd, i |-> 0])
  /\ Plain
NoteWaits ==
  /\ at = "note.wait" /\ my.i < Head(my.song).time
  /\ Says(Waits(my.rtc_fd), at, [my EXCEPT !.i = @ + 1])
  /\ Plain
NoteEnds ==
  /\ at = "note.wait" /\ my.i = Head(my.song).time
  /\ Prints(system_nosound)
  /\ system_close(my.rtc_fd)
  /\ Goes("note", [song |-> Tail(my.song)])
  /\ Plain

-----------------------------------------------------------------------------
(* derefnull and divzero: nothing handles the exception. *)

Faults(program_, text) == at = program_ /\ Exits(<<text>>, 256) /\ Plain
Derefnull == Faults("derefnull", "This program is going to dereference NULL!\n")
Divzero == Faults("divzero", "This program is going to dividing zero!\n")

SoundStep ==
  \/ \E program_ \in {"beep", "music"} : SoundStarts(program_)
  \/ SoundEnds \/ NotePassed \/ NoteOpens \/ NoteSetsRate \/ NoteSounds
  \/ NoteWaits \/ NoteEnds
  \/ Derefnull \/ Divzero

-----------------------------------------------------------------------------
(***************************************************************************)
(* What the programs promise for a line of arguments: its words are         *)
(* numbers, and every note of the song is heard, for its time.  It holds of *)
(* frequencies above 18 only: for lower ones the divisor is cut to 16 bits. *)
(***************************************************************************)
AddToWords(words, c) ==
  IF c = " " THEN Append(words, <<>>)
  ELSE Append(Front(words), Append(Last(words), c))
WordsOf(text) ==
  SelectSeq(FoldLeft(AddToWords, <<<<>>>>, SubSeq(text, 1, Min({ARG_LENGTH, Len(text)}))),
            LAMBDA w : w # <<>>)
Meant(word) == FoldLeft(LAMBDA v, c : 10 * v + Digit(c), 0, word) % 2^WIDTH
IsNumber(word) == ToSet(word) \subseteq ToSet(Digits) /\ Meant(word) # MINUS_ONE

Heard(note) ==
  IF note.time = 0 THEN <<>>
  ELSE Rate(32) \o (IF note.frequency = 0 THEN <<>>
                    ELSE <<"tone ">> \o itoa(PIT_FREQUENCY \div note.frequency, 10))
       \o FlattenSeq([i \in 1..note.time |-> Tick]) \o <<"silence">>

SoundPromises(program_, words) ==
  LET n == IF program_ = "beep" THEN 2 ELSE 1
  IN  IF Len(words) < n \/ \E i \in 1..n : ~IsNumber(words[i])
      THEN [text |-> <<Format(program_)>>, status |-> -1]
      ELSE LET song == Song(program_, [i \in 1..n |-> Meant(words[i])])
           IN  [text |-> FlattenSeq([i \in DOMAIN song |-> Heard(song[i])]), status |-> 0]
=============================================================================
