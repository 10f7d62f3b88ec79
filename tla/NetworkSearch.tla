---------------------------- MODULE NetworkSearch ----------------------------
(***************************************************************************)
(* The search for networks (at_network.c, with SendCommandLock and         *)
(* SendCommandNetWorksLock of at_support.c).  A search is begun by a       *)
(* command and ends later: by the list of networks, which the modem sends  *)
(* when it has it, by the alarm after 120 s, or by the next command, which *)
(* interrupts it.  The three meet over g_reportInfoForOperListToUse, the   *)
(* pause flag and the alarm, with three mutexes between them; the handler  *)
(* of the alarm takes only the one of the flag, and runs on top of         *)
(* whichever thread the signal is delivered to.                            *)
(*                                                                         *)
(* The exchange of a command is that of AtChannel reduced to its ends: an  *)
(* answer, a timeout, a refusal.  A report is one step here; HrilDispatch  *)
(* has its steps.                                                          *)
(***************************************************************************)
EXTENDS Naturals, Sequences

CONSTANTS
  MaxSearches,   \* bound: requests for a search
  MaxCommands    \* bound: other commands, of the request or background thread

ASSUME BoundAssumption == MaxSearches \in Nat /\ MaxCommands \in Nat

(* The thread that holds dispatchMutex, one that sends commands of its own *)
(* (the event loop or the listener), the reader, the handler of SIGALRM.   *)
Senders  == {"request", "background"}
Hosts    == Senders \union {"reader"}
Threads  == Hosts \union {"alarm"}
Searches == 1..MaxSearches
NoSearch == 0                   \* requestInfo is NULL

VARIABLES
  pc,            \* where each thread is
  host,          \* the thread the signal handler runs on top of
  searchMutex,   \* g_networkSearchInformationMutex
  commandMutex,  \* g_commandmutex
  flagMutex,     \* g_atPauseFlagMutex
  pauseFlag,     \* g_isNeedATPause
  watch,         \* g_atWatch is set
  armed,         \* alarm(120) is running
  kept,          \* g_reportInfoForOperListToUse.requestInfo
  keptError,     \* g_reportInfoForOperListToUse.error
  answers,       \* [Searches -> what the client was told, in order]
  response,      \* the thread g_response belongs to
  prefix,        \* g_prefix is "+COPS:"
  owed,          \* lists the modem may yet send, by their search
  line,          \* the list the reader has: of which search, g_prefix matched
  asked,         \* the searches asked for; the last is the one under way
  commands,      \* the other commands so far
  lapses         \* history: how a search lost its alarm or its pause flag

mutexes == <<searchMutex, commandMutex, flagMutex>>
search  == <<kept, keptError, answers>>
guard   == <<pauseFlag, watch, armed>>
modem   == <<response, prefix, owed>>
calls   == <<asked, commands>>
vars == <<pc, host, mutexes, search, guard, modem, line, calls, lapses>>

Free       == "free"
Nobody     == "nobody"
NoLine     == [list |-> NoSearch, matches |-> FALSE]

Init ==
  /\ pc = [t \in Threads |-> "idle"] /\ host = Nobody
  /\ searchMutex = Free /\ commandMutex = Free /\ flagMutex = Free
  /\ pauseFlag = FALSE /\ watch = FALSE /\ armed = FALSE
  /\ kept = NoSearch /\ keptError = "success"
  /\ answers = [s \in Searches |-> <<>>]
  /\ response = Nobody /\ prefix = FALSE /\ owed = <<>>
  /\ line = NoLine /\ asked = 0
  /\ commands = 0
  /\ lapses = {}

(* A thread does not run while the handler runs on top of it.              *)
At(t, label)   == pc[t] = label /\ host # t
Goto(t, label) == pc' = [pc EXCEPT ![t] = label]

(* OnNetworkReport for a search.  The answer says who made it, and whether *)
(* the handler of the alarm was at work at the time.                       *)
Tell(s, by, error, list) ==
  answers' = [answers EXCEPT ![s] = Append(@,
    [by |-> by, error |-> error, list |-> list,
     beside |-> pc["alarm"] # "idle"])]

(* With the kept ReportInfo: nothing without a request.                    *)
Report(by, error, list) ==
  IF kept = NoSearch THEN UNCHANGED answers ELSE Tell(kept, by, error, list)

-----------------------------------------------------------------------------
(* SetAtPauseFlag(false), in two steps: where it is called, and what       *)
(* follows.  The thread that holds g_atPauseFlagMutex is inside.           *)
FlagLabels ==
  {"fail flag", "interrupt flag", "list flag", "deal flag", "timeout flag"}

AfterFlag(label) ==
  CASE label = "fail flag"      -> "fail report"
    [] label = "interrupt flag" -> "interrupt end"
    [] label = "list flag"      -> "list alarm"
    [] label = "deal flag"      -> "deal report"
    [] label = "timeout flag"   -> "timeout end"

LockFlag(t) ==
  /\ pc[t] \in FlagLabels /\ host # t
  /\ flagMutex = Free
  /\ flagMutex' = t
  /\ UNCHANGED <<pc, host, searchMutex, commandMutex, search, guard, modem,
                 line, calls, lapses>>

ClearFlag(t) ==
  /\ flagMutex = t /\ host # t
  /\ pauseFlag' = FALSE
  /\ flagMutex' = Free
  /\ Goto(t, AfterFlag(pc[t]))
  /\ UNCHANGED <<host, searchMutex, commandMutex, search, watch, armed, modem,
                 line, calls, lapses>>

-----------------------------------------------------------------------------
(* ReqGetNetworkSearchInformation.  alarm(0) comes before the look whether *)
(* a search is running, which then goes on without its alarm.              *)
AskSearch ==
  /\ At("request", "idle")
  /\ asked < MaxSearches
  /\ searchMutex = Free
  /\ searchMutex' = "request"
  /\ asked' = asked + 1
  /\ armed' = FALSE
  /\ lapses' = IF kept # NoSearch THEN lapses \union {"repeat"} ELSE lapses
  /\ Goto("request", "look")
  /\ UNCHANGED <<host, commandMutex, flagMutex, search, pauseFlag, watch, modem,
                 line, commands>>

(* A repeated search is refused.                                           *)
RefuseRepeat ==
  /\ At("request", "look")
  /\ kept # NoSearch
  /\ Tell(asked, "repeat", "searching", NoSearch)
  /\ searchMutex' = Free
  /\ Goto("request", "idle")
  /\ UNCHANGED <<host, commandMutex, flagMutex, kept, keptError, guard, modem,
                 line, calls, lapses>>

(* Faulty: a repeated search is not refused.                               *)
InstallAnyway ==
  /\ At("request", "look")
  /\ Goto("request", "search command")
  /\ UNCHANGED <<host, mutexes, search, guard, modem, line, calls, lapses>>

(* signal() may fail, and the request ends without a word.                 *)
InstallHandler ==
  /\ At("request", "look")
  /\ kept = NoSearch
  /\ \/ /\ Goto("request", "search command")
        /\ lapses' = IF pc["alarm"] # "idle"
                     THEN lapses \union {"late handler"} ELSE lapses
        /\ UNCHANGED searchMutex
     \/ /\ Goto("request", "idle")
        /\ lapses' = lapses \union {"no handler"}
        /\ searchMutex' = Free
  /\ UNCHANGED <<host, commandMutex, flagMutex, search, guard, modem, line,
                 calls>>

-----------------------------------------------------------------------------
(* SendCommandNoLock of thread t, which holds g_commandmutex: refused when *)
(* a response is pending or the write fails, which leaves no prefix; else  *)
(* it waits with the mutex released.                                       *)
Exchange(t, asks, refused, waiting) ==
  \/ /\ response # Nobody
     /\ prefix' = asks
     /\ Goto(t, refused)
     /\ UNCHANGED response
  \/ /\ response = Nobody
     /\ prefix' = FALSE
     /\ Goto(t, refused)
     /\ UNCHANGED response
  \/ /\ response = Nobody
     /\ prefix' = asks
     /\ response' = t
     /\ Goto(t, waiting)

(* The end of the wait: with the mutex again, and the answer of the modem, *)
(* or out of time, which leaves no prefix (ClearCurCommand).               *)
Returned(t) ==
  /\ response = t
  /\ commandMutex = Free
  /\ response' = Nobody
  /\ prefix' \in {prefix, FALSE}

(* SendCommandNetWorksLock.  The pause flag is set without its mutex.      *)
SendSearch ==
  /\ At("request", "search command")
  /\ commandMutex = Free
  /\ pauseFlag' = TRUE
  /\ Exchange("request", TRUE, "refused", "search wait")
  /\ owed' = IF pc'["request"] = "search wait" THEN Append(owed, asked)
                                               ELSE owed
  /\ UNCHANGED <<host, mutexes, search, watch, armed, line, calls, lapses>>

(* A timeout is as good as a success: the list is still to come.           *)
SearchReturns ==
  /\ At("request", "search wait")
  /\ Returned("request")
  /\ \E next \in {"refused", "begun"} : Goto("request", next)
  /\ UNCHANGED <<host, mutexes, search, guard, owed, line, calls, lapses>>

(* Faulty: the flag stays up when the command is refused.                  *)
KeepRefusedPaused ==
  /\ At("request", "refused")
  /\ kept' = asked
  /\ keptError' = "success"
  /\ Goto("request", "fail report")
  /\ UNCHANGED <<host, mutexes, answers, guard, modem, line, calls, lapses>>

KeepRefused ==
  /\ At("request", "refused")
  /\ kept' = asked
  /\ keptError' = "success"
  /\ Goto("request", "fail flag")
  /\ UNCHANGED <<host, mutexes, answers, guard, modem, line, calls, lapses>>

(* Faulty: a refused search ends like a repeated one whose signal failed.  *)
RefuseSilently ==
  /\ At("request", "fail report")
  /\ keptError' = "refused"
  /\ Goto("request", "fail end")
  /\ UNCHANGED <<host, mutexes, kept, answers, guard, modem, line, calls,
                 lapses>>

ReportRefused ==
  /\ At("request", "fail report")
  /\ keptError' = "refused"
  /\ Report("refusal", "refused", NoSearch)
  /\ Goto("request", "fail end")
  /\ UNCHANGED <<host, mutexes, kept, guard, modem, line, calls, lapses>>

(* What follows the report in the four that make one: requestInfo is NULL. *)
EndSearch(t, label, next) ==
  /\ At(t, label)
  /\ kept' = NoSearch
  /\ searchMutex' = IF searchMutex = t THEN Free ELSE searchMutex
  /\ Goto(t, next)
  /\ host' = IF t = "alarm" THEN Nobody ELSE host
  /\ UNCHANGED <<commandMutex, flagMutex, keptError, answers, guard, modem,
                 line, calls, lapses>>

(* Faulty: the alarm is left off.                                          *)
KeepUnarmed ==
  /\ At("request", "begun")
  /\ kept' = asked
  /\ keptError' = "success"
  /\ searchMutex' = Free
  /\ Goto("request", "set watch")
  /\ UNCHANGED <<host, commandMutex, flagMutex, answers, guard, modem, line,
                 calls, lapses>>

KeepBegun ==
  /\ At("request", "begun")
  /\ kept' = asked
  /\ keptError' = "success"
  /\ armed' = TRUE
  /\ searchMutex' = Free
  /\ Goto("request", "set watch")
  /\ UNCHANGED <<host, commandMutex, flagMutex, answers, pauseFlag, watch,
                 modem, line, calls, lapses>>

SetWatchFunction ==
  /\ At("request", "set watch")
  /\ watch' = TRUE
  /\ Goto("request", "idle")
  /\ UNCHANGED <<host, mutexes, search, pauseFlag, armed, modem, line, calls,
                 lapses>>

-----------------------------------------------------------------------------
(* SendCommandLock of any other operation.  With the pause flag up it      *)
(* first sends AT, to stop the search, whatever comes of it.               *)
AskCommand(t) ==
  /\ At(t, "idle")
  /\ commands < MaxCommands
  /\ commandMutex = Free
  /\ commandMutex' = t
  /\ commands' = commands + 1
  /\ Goto(t, IF pauseFlag THEN "stop" ELSE "send")
  /\ UNCHANGED <<host, searchMutex, flagMutex, search, guard, modem, line,
                 asked, lapses>>

SendStop(t) ==
  /\ At(t, "stop")
  /\ Exchange(t, prefix, "watch", "stop wait")
  /\ commandMutex' = IF pc'[t] = "watch" THEN t ELSE Free
  /\ UNCHANGED <<host, searchMutex, flagMutex, search, guard, owed, line, calls,
                 lapses>>

StopReturns(t) ==
  /\ At(t, "stop wait")
  /\ Returned(t)
  /\ commandMutex' = t
  /\ Goto(t, "watch")
  /\ UNCHANGED <<host, searchMutex, flagMutex, search, guard, owed, line, calls,
                 lapses>>

(* Faulty: the pause does not take the mutex of the search.                *)
LockWatchedOpenly(t) ==
  /\ At(t, "watch")
  /\ Goto(t, IF watch THEN "interrupt" ELSE "resume")
  /\ lapses' = IF watch THEN lapses ELSE lapses \union {"unwatched"}
  /\ UNCHANGED <<host, mutexes, search, guard, modem, line, calls>>

(* g_atWatch, which is GetNetworkSearchInformationPause once there was a   *)
(* search, takes the mutex of the search under that of the command.        *)
LockWatched(t) ==
  /\ At(t, "watch")
  /\ IF watch
       THEN /\ searchMutex = Free
            /\ searchMutex' = t
            /\ Goto(t, "interrupt")
            /\ UNCHANGED lapses
       ELSE /\ Goto(t, "resume")
            /\ lapses' = lapses \union {"unwatched"}
            /\ UNCHANGED searchMutex
  /\ UNCHANGED <<host, commandMutex, flagMutex, search, guard, modem, line,
                 calls>>

Interrupt(t) ==
  /\ At(t, "interrupt")
  /\ keptError' = "interrupted"
  /\ Report("pause", "interrupted", NoSearch)
  /\ Goto(t, "interrupt flag")
  /\ UNCHANGED <<host, mutexes, kept, guard, modem, line, calls, lapses>>

Resume(t) ==
  /\ At(t, "resume")
  /\ pauseFlag' = FALSE
  /\ armed' = FALSE
  /\ Goto(t, "send")
  /\ UNCHANGED <<host, mutexes, search, watch, modem, line, calls, lapses>>

SendOther(t) ==
  /\ At(t, "send")
  /\ Exchange(t, FALSE, "idle", "send wait")
  /\ commandMutex' = Free
  /\ UNCHANGED <<host, searchMutex, flagMutex, search, guard, owed, line, calls,
                 lapses>>

OtherReturns(t) ==
  /\ At(t, "send wait")
  /\ Returned(t)
  /\ Goto(t, "idle")
  /\ UNCHANGED <<host, mutexes, search, guard, owed, line, calls, lapses>>

-----------------------------------------------------------------------------
(* The reader.  ProcessResponse compares a list with g_prefix before it    *)
(* takes the mutex.                                                        *)
ReadList ==
  /\ At("reader", "idle")
  /\ owed # <<>>
  /\ owed' = Tail(owed)
  /\ line' = [list |-> Head(owed), matches |-> prefix]
  /\ Goto("reader", "line")
  /\ UNCHANGED <<host, mutexes, search, guard, response, prefix, calls, lapses>>

(* Faulty: the notification is made under the mutex of the command.        *)
DispatchListLocked ==
  /\ At("reader", "line")
  /\ commandMutex = Free
  /\ IF response # Nobody /\ line.matches
       THEN /\ Goto("reader", "idle") /\ line' = NoLine
            /\ UNCHANGED commandMutex
       ELSE /\ Goto("reader", "list flag") /\ commandMutex' = "reader"
            /\ UNCHANGED line
  /\ UNCHANGED <<host, searchMutex, flagMutex, search, guard, modem, calls,
                 lapses>>

(* A list that is collected in a pending response is freed with it; any    *)
(* other goes to the notifications, with the mutex released.               *)
DispatchList ==
  /\ At("reader", "line")
  /\ commandMutex = Free
  /\ IF response # Nobody /\ line.matches
       THEN Goto("reader", "idle") /\ line' = NoLine
       ELSE Goto("reader", "list flag") /\ UNCHANGED line
  /\ UNCHANGED <<host, mutexes, search, guard, modem, calls, lapses>>

(* ProcessOperListToUse: the alarm is off before the list has been read,   *)
ListAlarm ==
  /\ At("reader", "list alarm")
  /\ armed' = FALSE
  /\ \E list \in {line.list, NoSearch} : line' = [line EXCEPT !.list = list]
  /\ Goto("reader", "deal")
  /\ UNCHANGED <<host, mutexes, search, pauseFlag, watch, modem, calls, lapses>>

(* and once more in DealNetworkSearchInformation.                          *)
LockDeal ==
  /\ At("reader", "deal")
  /\ searchMutex = Free
  /\ searchMutex' = "reader"
  /\ Goto("reader", "deal flag")
  /\ UNCHANGED <<host, commandMutex, flagMutex, search, guard, modem, line,
                 calls, lapses>>

(* An unreadable list makes the error its own; one that was read goes out  *)
(* with the error as it is.                                                *)
ReportList ==
  /\ At("reader", "deal report")
  /\ armed' = FALSE
  /\ keptError' = IF kept # NoSearch /\ line.list = NoSearch THEN "invalid"
                                                           ELSE keptError
  /\ Report("list", keptError', line.list)
  /\ line' = NoLine
  /\ Goto("reader", "deal end")
  /\ UNCHANGED <<host, mutexes, kept, pauseFlag, watch, modem, calls, lapses>>

-----------------------------------------------------------------------------
(* SIGALRM is delivered to any thread of the process; one that is idle is  *)
(* as good as one that has no part in this.  PerformTimeOut asks for the   *)
(* flag, and then does without a mutex what the others do with it.         *)
Expire ==
  /\ armed /\ pc["alarm"] = "idle"
  /\ armed' = FALSE
  /\ \E h \in {t \in Hosts : pc[t] # "idle"} \union {"elsewhere"} : host' = h
  /\ Goto("alarm", "timeout")
  /\ UNCHANGED <<mutexes, search, pauseFlag, watch, modem, line, calls, lapses>>

PerformTimeOut ==
  /\ At("alarm", "timeout")
  /\ flagMutex = Free
  /\ IF pauseFlag
       THEN /\ Goto("alarm", "timeout report")
            /\ keptError' = "timeout"
            /\ UNCHANGED host
       ELSE /\ Goto("alarm", "idle")
            /\ host' = Nobody
            /\ UNCHANGED keptError
  /\ UNCHANGED <<mutexes, kept, answers, guard, modem, line, calls, lapses>>

ReportTimeout ==
  /\ At("alarm", "timeout report")
  /\ Report("alarm", keptError, NoSearch)
  /\ Goto("alarm", "timeout flag")
  /\ UNCHANGED <<host, mutexes, kept, keptError, guard, modem, line, calls,
                 lapses>>

-----------------------------------------------------------------------------
Ask ==
  \/ AskSearch
  \/ \E t \in Senders : AskCommand(t)

SearchStep ==
  \/ RefuseRepeat \/ InstallHandler
  \/ SendSearch \/ SearchReturns \/ KeepBegun \/ KeepRefused
  \/ ReportRefused \/ EndSearch("request", "fail end", "idle")
  \/ SetWatchFunction

CommandStep(t) ==
  \/ SendStop(t) \/ StopReturns(t)
  \/ LockWatched(t) \/ Interrupt(t) \/ EndSearch(t, "interrupt end", "resume")
  \/ Resume(t)
  \/ SendOther(t) \/ OtherReturns(t)

ListStep ==
  \/ DispatchList \/ ListAlarm \/ LockDeal \/ ReportList
  \/ EndSearch("reader", "deal end", "idle")

HandlerStep ==
  \/ PerformTimeOut \/ ReportTimeout
  \/ EndSearch("alarm", "timeout end", "idle")

FlagStep(t) == LockFlag(t) \/ ClearFlag(t)

Next ==
  \/ Ask \/ SearchStep
  \/ \E t \in Senders : CommandStep(t)
  \/ ReadList \/ ListStep
  \/ Expire \/ HandlerStep
  \/ \E t \in Threads : FlagStep(t)

(* Threads run, waits time out and the alarm goes off; nobody has to call, *)
(* and the modem has to send nothing.                                      *)
Fairness ==
  /\ WF_vars(SearchStep)
  /\ \A t \in Senders : WF_vars(CommandStep(t))
  /\ WF_vars(ListStep) /\ WF_vars(Expire) /\ WF_vars(HandlerStep)
  /\ \A t \in Threads : WF_vars(FlagStep(t))

Spec     == Init /\ [][Next]_vars
FairSpec == Spec /\ Fairness

-----------------------------------------------------------------------------
Labels ==
  {"idle", "look", "search command", "search wait", "refused",
   "begun", "fail report", "fail end", "set watch", "stop",
   "stop wait", "watch", "interrupt", "interrupt end", "resume", "send",
   "send wait", "line", "list alarm", "deal", "deal report",
   "deal end", "timeout", "timeout report", "timeout end"}
  \union FlagLabels
Errors == {"success", "searching", "refused", "interrupted", "invalid",
           "timeout"}
Makers == {"repeat", "refusal", "pause", "list", "alarm"}
Answers == [by : Makers, error : Errors, list : Searches \union {NoSearch},
            beside : BOOLEAN]

(* Every mutex is free or held by a thread; answers go to searches asked   *)
(* for.                                                                    *)
TypeOK ==
  /\ pc \in [Threads -> Labels] /\ host \in Hosts \union {"elsewhere", Nobody}
  /\ searchMutex \in Hosts \union {Free}
  /\ commandMutex \in Senders \union {Free}
  /\ flagMutex \in Threads \union {Free}
  /\ pauseFlag \in BOOLEAN /\ watch \in BOOLEAN /\ armed \in BOOLEAN
  /\ kept \in Searches \union {NoSearch} /\ keptError \in Errors
  /\ asked \in Searches \union {NoSearch}
  /\ answers \in [Searches -> Seq(Answers)]
  /\ \A s \in Searches : answers[s] # <<>> => s <= asked
  /\ response \in Senders \union {Nobody}
  /\ prefix \in BOOLEAN /\ owed \in Seq(Searches)
  /\ line \in [list : Searches \union {NoSearch}, matches : BOOLEAN]
  /\ commands \in 0..MaxCommands
  /\ lapses \subseteq {"repeat", "unwatched", "late handler", "no handler"}

ErrorsOf ==
  [repeat |-> {"searching"}, refusal |-> {"refused"}, pause |-> {"interrupted"},
   list |-> {"success", "invalid"}, alarm |-> {"timeout"}]

(* A client that asked for a search is told once, and of what happened:    *)
(* two answers, or one with the error of another end, come only of the     *)
(* handler of the alarm (PerformTimeOut), which reports with no mutex.     *)
OnlyTheHandlerMeets ==
  \A s \in Searches :
    /\ Len(answers[s]) > 1
         => \E i \in DOMAIN answers[s] : answers[s][i].by = "alarm"
    /\ \A i \in DOMAIN answers[s] :
         \/ answers[s][i].error \in ErrorsOf[answers[s][i].by]
         \/ answers[s][i].beside

(* A list ends another search than the one it was asked by only when that  *)
(* one had ended before it came (it was interrupted, refused or timed out, *)
(* and the modem sent its list all the same), or was forgotten by a        *)
(* handler of the alarm that was at work when it began.                    *)
OthersListsAreLate ==
  \A s \in Searches : \A i \in DOMAIN answers[s] :
    LET list == answers[s][i].list IN
    list \notin {s, NoSearch} => \/ answers[list] # <<>>
                                \/ "late handler" \in lapses

(* Every search that is kept will be ended: its alarm is running and the   *)
(* flag tells the handler and the next command so, or some thread is at    *)
(* it; except after one of the lapses.                                     *)
SearchIsGuarded ==
  kept # NoSearch =>
    \/ armed /\ pauseFlag
    \/ pc["request"] \in {"fail flag", "fail report", "fail end"}
    \/ pc["reader"] \in {"list alarm", "deal", "deal flag", "deal report",
                         "deal end", "list flag"}
    \/ \E t \in Senders :
         pc[t] \in {"interrupt", "interrupt flag", "interrupt end"}
    \/ pc["alarm"] # "idle"
    \/ lapses # {}

(* Between two calls the flag, the alarm and the kept request agree,       *)
(* except after one of the lapses.                                         *)
FlagMeansSearch ==
  (\A t \in Threads : pc[t] = "idle") /\ lapses = {}
    => /\ pauseFlag = (kept # NoSearch)
       /\ armed = (kept # NoSearch)

-----------------------------------------------------------------------------
(* The mutex a thread is waiting for, and who holds it.                    *)
Wanted(t) ==
  CASE pc[t] = "deal" \/ (pc[t] = "watch" /\ watch) -> searchMutex
    [] pc[t] \in {"search command", "search wait", "stop wait", "send wait",
                  "line"} -> commandMutex
    [] pc[t] = "timeout" \/ pc[t] \in FlagLabels -> flagMutex
    [] OTHER -> Free

WaitsFor(t) ==
  IF host = t THEN {"alarm"} ELSE {Wanted(t)} \ {Free, t}

(* Threads that wait for each other.                                       *)
Stuck(S) == S # {} /\ \A t \in S : WaitsFor(t) \intersect S # {}

(* There are two ways for threads to stop for good.  The request thread    *)
(* waits for the answer to its search, or for its turn to send it, holding *)
(* the mutex of the search, while another thread pauses the search under   *)
(* the mutex of the command; and the handler of the alarm waits for the    *)
(* mutex of the flag that the thread it runs on top of holds.              *)
CyclesAreKnown ==
  \A S \in SUBSET Threads : Stuck(S) =>
    \/ /\ pc["request"] \in {"search command", "search wait"}
       /\ pc["background"] = "watch" /\ watch
    \/ /\ pc["alarm"] \in {"timeout", "timeout flag"} /\ host = flagMutex

(* A client that asks for a search is answered, if only because the alarm  *)
(* goes off: with no lapse, and no threads stuck.                          *)
SearchesEnd ==
  asked # 0 ~> \/ \A s \in 1..asked : answers[s] # <<>>
               \/ lapses # {}
               \/ \E S \in SUBSET Threads : Stuck(S)
=============================================================================
