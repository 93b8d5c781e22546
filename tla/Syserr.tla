------------------------------- MODULE Syserr -------------------------------
(***************************************************************************)
(* The system call tests that come with the programs (ece391syserr.c).  A   *)
(* test is a sequence of calls that should fail; test 3 opens until the     *)
(* table is full.  A step is one call.                                      *)
(***************************************************************************)
EXTENDS Shell

NEG_FD == -1073741823
BIG_FD == 1073741823
BIG_NUM == 1073741823
NEG_NUM == -1073741823

\* A call, and what is printed if it does not fail
Call(name, of, complaint) == [name |-> name, of |-> of, complaint |-> complaint]
Bad(fd) == << Call("read", fd, "read fail\n"), Call("write", fd, "write fail\n"),
              Call("close", fd, "close fail\n") >>
On(name, fds, complaint) == [i \in DOMAIN fds |-> Call(name, fds[i], complaint)]
OpenCalls == [i \in 1..7 |-> Call("open", <<".">>, "")]
Numbered(first) == [i \in 1..(8 - first) |-> first + i - 1]

Tests == <<
  [name |-> "err_neg_fd", calls |-> Bad(NEG_FD)],
  [name |-> "err_big_fd", calls |-> Bad(BIG_FD)],
  [name |-> "err_open_lots", calls |-> OpenCalls \o On("close", Numbered(2), "")],
  [name |-> "err_open",
   calls |-> << Call("open", <<"hello", "o">>, "'helloo' fail\n"),
                Call("open", <<"shel">>, "'shel' fail\n"),
                Call("open", <<>>, "empty string fail\n") >>],
  [name |-> "err_unopened",
   calls |-> On("close", Numbered(0), "close unopened or invalid fd fail\n")
             \o On("read", Numbered(2), "read from unopened fd fail\n")
             \o On("write", Numbered(2), "write to unopened fd fail\n")],
  [name |-> "err_vidmap",
   calls |-> << Call("vidmap", "null", "Null pointer fail\n"),
                Call("vidmap", "kernel", "Kernel pointer fail fail\n") >>],
  [name |-> "err_stdin_out",
   calls |-> << Call("write", 0, "write to stdin fail\n"),
                Call("read", 1, "read from stdout fail\n") >>],
  [name |-> "err_syscall_num",
   calls |-> << Call("call_sys", BIG_NUM, "syscall 0 fail\n"),
                Call("call_sys", NEG_NUM, "big num syscall fail\n"),
                Call("call_sys", 0, "neg num syscall fail\n") >>] >>

Result(call) ==
  CASE call.name = "read"   -> read_returns(call.of, 31, <<>>).value
    [] call.name = "write"  -> write_returns(call.of, 31, 0)
    [] call.name = "close"  -> close_returns(call.of)
    [] call.name = "open"   -> open_returns(call.of)
    [] call.name = "vidmap" -> vidmap_returns(call.of)
    [] call.name = "call_sys" -> IF NotImplemented(call.of) THEN -1 ELSE 0
Effect(call) ==
  CASE call.name = "open"  -> system_open(call.of)
    [] call.name = "close" -> system_close(call.of)
    [] call.name = "read"  -> system_read(call.of, 31)
    [] OTHER -> UNCHANGED fileVars

-----------------------------------------------------------------------------
SyserrAsks ==
  /\ at = "syserr"
  /\ Says(<<"Choose from tests 1-8. 0 to run all: ">>, "syserr.choose", Nothing)
  /\ UNCHANGED <<bootVars, shellVars, histories>>

\* select is computed from buf[0], which an empty line does not write.
Choice == {<<"0">>, <<"1">>, <<"2">>, <<"3">>, <<"4">>, <<"5">>, <<"6">>, <<"7">>, <<"8">>}
Selected(answer) == IF answer = <<>> THEN Choice \cup {<<"9">>} ELSE {<<answer[1]>>}
Selection(choice) ==
  SelectSeq([i \in DOMAIN Tests |-> i],
            LAMBDA i : choice = <<"0">> \/ itoa(i, 10) = choice)

SyserrChooses ==
  /\ at = "syserr.choose"
  /\ \E answer \in Answer : \E choice \in Selected(answer) :
       /\ typed' = answer
       /\ IF choice \in Choice
          THEN /\ Goes("syserr.call",
                       [all |-> choice = <<"0">>, todo |-> Selection(choice),
                        k |-> 1, counted |-> 0, fail |-> 0, sum |-> 0])
               /\ Quiet /\ UNCHANGED fileVars
          ELSE Exits(<<"Invalid test number. Choose from tests 1-8 or 0">>, 0)
  /\ UNCHANGED <<bootVars, shellVars, unlucky>>

Test == Tests[my.todo[1]]
OpenLots == Test.name = "err_open_lots"

SyserrCalls ==
  /\ at = "syserr.call" /\ my.k <= Len(Test.calls)
  /\ LET call == Test.calls[my.k]
         ok == Result(call) = -1
         refused == IF call.name = "open" /\ ok THEN 1 ELSE 0
     IN  /\ Effect(call)
         /\ IF OpenLots
            THEN Quiet /\ Goes(at, [my EXCEPT !.k = @ + 1, !.counted = @ + refused])
            ELSE /\ Prints(IF ok THEN <<>> ELSE <<call.complaint>>)
                 /\ Goes(at, [my EXCEPT !.k = @ + 1, !.fail = IF ok THEN @ ELSE 2])
  /\ UNCHANGED <<bootVars, shellVars, histories>>

fail == IF OpenLots THEN (IF my.counted = 1 THEN 0 ELSE 2) ELSE my.fail
Verdict == <<Test.name \o (IF fail = 0 THEN ": PASS\n" ELSE ": FAIL\n")>>
Overall == <<IF my.sum + fail = 0 THEN "\nOverall Tests: PASS\n"
             ELSE "\nOverall Tests: FAIL\n">>

SyserrVerdict ==
  /\ at = "syserr.call" /\ my.k > Len(Test.calls)
  /\ IF Len(my.todo) > 1
     THEN Says(Verdict, at, [my EXCEPT !.todo = Tail(@), !.k = 1, !.counted = 0,
                                      !.fail = 0, !.sum = @ + fail])
     ELSE Exits(IF my.all THEN Verdict \o Overall ELSE Verdict, my.sum + fail)
  /\ UNCHANGED <<bootVars, shellVars, histories>>

SyserrStep == SyserrAsks \/ SyserrChooses \/ SyserrCalls \/ SyserrVerdict

-----------------------------------------------------------------------------
Failures == {Tests[i].name \o ": FAIL\n" : i \in DOMAIN Tests}
            \cup {"\nOverall Tests: FAIL\n"}
            \cup UNION {{Tests[i].calls[k].complaint : k \in DOMAIN Tests[i].calls}
                          : i \in DOMAIN Tests}

(***************************************************************************)
(* "PASS if behavior is EXPECTED" (ece391syserr.c:31): no test ever says    *)
(* that a call did what it should not, run alone or all in a row on the     *)
(* same descriptors, and the tests end with what says so.                   *)
(***************************************************************************)
TestsPass ==
  /\ line = <<"syserr">> => \A i \in DOMAIN out : out[i] \notin Failures
  /\ at = "report" /\ line = <<"syserr">> /\ typed = <<"0">> /\ ~interrupted =>
       /\ my.rval = 0
       /\ \A i \in DOMAIN Tests : \E k \in DOMAIN out : out[k] = Tests[i].name \o ": PASS\n"
=============================================================================
