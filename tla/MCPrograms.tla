----------------------------- MODULE MCPrograms ------------------------------
(***************************************************************************)
(* Every text of up to MAX_TEXT characters for cat and grep, with a buffer  *)
(* of three bytes, and one directory with all the programs, a word each.    *)
(* Two terminals of two lines of three columns for what putc prints.        *)
(***************************************************************************)
EXTENDS Programs

CONSTANT MAX_TEXT

Dir == [name |-> <<".">>, type |-> "dir", data |-> <<>>]
Rtc == [name |-> <<"rtc">>, type |-> "rtc", data |-> <<>>]
File_(name, data) == [name |-> name, type |-> "file", data |-> data]
Executable(word) == File_(<<word>>, ELF)

Texts == UNION {[1..n -> {"a", "b", NL}] : n \in 0..MAX_TEXT}
TextBoots ==
  {[image |-> <<Dir, File_(<<"f">>, text), Rtc, Executable("grep"), Executable("cat")>>,
    commands |-> {<<"grep", " ", "a">>, <<"grep", " ", "b", "a">>, <<"cat", " ", "f">>}]
     : text \in Texts}

Words == <<"cat", "grep", "ls", "hello", "testprint", "counter", "rtctest",
           "pingpong", "sigtest", "syserr", "beep", "music", "derefnull", "divzero">>

\* Frequencies 1 to 18 are left out: 1193180 / 18 has more than the 16 bits that
\* beep.c:19-22 gives to the timer, and the tone that sounds is another one.
BeepArgs ==
  {<<"2", "0", " ", "2">>, <<" ", "0", " ", " ", "3">>, <<"9", " ", "0", "a">>,
   <<"2", "0", "0">>,
   <<"2", "5", "5", " ", "1">>, <<"2", "0", " ", "2", "5", "9">>, <<"2", "0", " ", "0">>,
   <<"2", "0", " ", "1", " ", "1">>, <<"5", "1", "2", "6", "3", "1", "2">>,
   <<" ", " ", " ", " ", " ", " ", "1">>}
MusicArgs ==
  {<<"0">>, <<"1">>, <<"2">>, <<"3">>, <<" ", "6", " ">>, <<"7">>, <<" ">>, <<"x">>,
   <<"2", "5", "6">>}
FullBoot ==
  [image |-> <<Dir, File_(<<"shel", "l">>, ELF), Rtc, File_(<<"f">>, <<"a", NL>>)>>
             \o [i \in DOMAIN Words |-> Executable(Words[i])],
   commands |-> {<<Words[i]>> : i \in DOMAIN Words}
                \cup {<<>>, <<"exit">>, <<"f">>, <<"none">>, <<" ", "cat">>,
                      <<"cat", " ", "f">>, <<"cat", " ", ".">>, <<"cat", " ", "rtc">>,
                      <<"cat", " ">>, <<"grep", " ">>, <<"cat", " ", "x">>,
                      <<"cat", " ", "f", " ", "f">>, <<"grep", " ", "E">>,
                      <<"sigtest", " ", "1">>, <<"sigtest", " ", "0">>}
                \cup {<<"beep", " ">> \o args_ : args_ \in BeepArgs}
                \cup {<<"music", " ">> \o args_ : args_ \in MusicArgs}]

MCBoots == TextBoots \cup {FullBoot}
MCAnswer == {<<>>, <<"n">>, <<"1", "2">>, <<"1", "2", "3">>}
            \cup {<<lookup[d]>> : d \in 1..10}
MCCOUNTS == <<2, 11, 3>>
MCLetters == <<"A", "B">>
MCLongSongs == [n \in 1..4 |-> [i \in 1..(2 * n) |-> Note(IF i % 2 = 0 THEN 0 ELSE 330,
                                                          100 * (i % 3))]]
=============================================================================
