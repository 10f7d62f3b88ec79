------------------------ MODULE NetworkSearchProofs ------------------------
(***************************************************************************)
(* Proofs about NetworkSearch, for any number of searches and commands:    *)
(* who holds which mutex where, in what ways threads can stop for good,    *)
(* and what becomes of the one search that is kept.                        *)
(***************************************************************************)
EXTENDS NetworkSearch, TLAPS

(* The labels by what a thread is doing there.                             *)
Beginning == {"search command", "search wait", "refused", "begun"}
Failing   == {"fail flag", "fail report", "fail end"}
Searching == {"look"} \union Beginning \union Failing
Pausing   == {"interrupt", "interrupt flag", "interrupt end"}
Dealing   == {"deal flag", "deal report", "deal end"}
Listing   == {"list flag", "list alarm", "deal"} \union Dealing
Sending   == {"stop", "watch", "resume", "send"} \union Pausing
TimingOut == {"timeout report", "timeout flag", "timeout end"}

HoldsSearch == Searching \union Pausing \union Dealing
Commanding  == {"idle", "stop wait", "send wait"} \union Sending

PlacesOf(t) ==
  CASE t = "request"    -> Commanding \union Searching \union {"set watch"}
    [] t = "background" -> Commanding
    [] t = "reader"     -> {"idle", "line"} \union Listing
    [] t = "alarm"      -> {"idle", "timeout"} \union TimingOut

Places == /\ pc \in [Threads -> Labels]
          /\ \A t \in Threads : pc[t] \in PlacesOf(t)

(* The mutexes are held exactly by who is in a section of theirs.          *)
Holders ==
  /\ searchMutex \in Hosts \union {Free}
  /\ commandMutex \in Senders \union {Free}
  /\ flagMutex \in Threads \union {Free}
  /\ \A t \in Hosts : searchMutex = t <=> pc[t] \in HoldsSearch
  /\ \A t \in Senders : commandMutex = t <=> pc[t] \in Sending
  /\ \A t \in Threads : flagMutex = t => pc[t] \in FlagLabels

-----------------------------------------------------------------------------
(* Places. *)

LEMMA ThreadNames ==
  /\ Threads = {"request", "background", "reader", "alarm"}
  /\ Hosts = {"request", "background", "reader"}
  /\ Senders = {"request", "background"}
BY DEF Threads, Hosts, Senders

LEMMA PlacesAre ==
  /\ PlacesOf("request") = Commanding \union Searching \union {"set watch"}
  /\ PlacesOf("background") = Commanding
  /\ PlacesOf("reader") = {"idle", "line"} \union Listing
  /\ PlacesOf("alarm") = {"idle", "timeout"} \union TimingOut
  /\ \A t \in Threads : PlacesOf(t) \subseteq Labels
<1>1. /\ PlacesOf("request") = Commanding \union Searching \union {"set watch"}
      /\ PlacesOf("background") = Commanding
      /\ PlacesOf("reader") = {"idle", "line"} \union Listing
      /\ PlacesOf("alarm") = {"idle", "timeout"} \union TimingOut
  BY DEF PlacesOf
<1>2. /\ Commanding \subseteq Labels /\ Searching \subseteq Labels
      /\ Listing \subseteq Labels /\ TimingOut \subseteq Labels
      /\ {"set watch", "idle", "line", "timeout"} \subseteq Labels
  BY DEF Commanding, Searching, Listing, TimingOut, Beginning, Failing, Pausing,
         Dealing, Sending, Labels, FlagLabels
<1> QED BY <1>1, <1>2, ThreadNames

LEMMA AfterFlagIs ==
  /\ AfterFlag("fail flag") = "fail report"
  /\ AfterFlag("interrupt flag") = "interrupt end"
  /\ AfterFlag("list flag") = "list alarm"
  /\ AfterFlag("deal flag") = "deal report"
  /\ AfterFlag("timeout flag") = "timeout end"
BY DEF AfterFlag

(* One thread moves, the others stay.                                      *)
LEMMA GotoMoves ==
  ASSUME Places, NEW t \in Threads, NEW l, Goto(t, l)
  PROVE  pc'[t] = l /\ \A u \in Threads \ {t} : pc'[u] = pc[u]
BY DEF Places, Goto

LEMMA GotoPlaces ==
  ASSUME Places, NEW t \in Threads, NEW l \in PlacesOf(t), Goto(t, l)
  PROVE  Places'
<1>1. l \in Labels
  BY PlacesAre
<1>2. pc' \in [Threads -> Labels]
  BY <1>1 DEF Places, Goto
<1>3. \A u \in Threads : pc'[u] \in PlacesOf(u)
  BY GotoMoves DEF Places
<1> QED BY <1>2, <1>3 DEF Places

LEMMA StepKeepsPlaces == Places /\ Holders /\ [Next]_vars => Places'
<1> SUFFICES ASSUME Places, Holders, [Next]_vars PROVE Places'
  OBVIOUS
<1> USE DEF Commanding, Searching, Beginning, Failing, Pausing, Dealing,
            Listing, Sending, TimingOut
<1>1. ASSUME UNCHANGED vars \/ \E t \in Threads : LockFlag(t) PROVE Places'
  <2>1. pc' = pc
    BY <1>1 DEF vars, LockFlag
  <2> QED BY <2>1 DEF Places
<1>2. ASSUME AskSearch \/ SearchStep PROVE Places'
  <2>1. \E l \in PlacesOf("request") : Goto("request", l)
    BY <1>2, PlacesAre DEF AskSearch, SearchStep, RefuseRepeat, InstallHandler,
         SendSearch, Exchange, SearchReturns, KeepBegun, KeepRefused,
         ReportRefused, EndSearch, SetWatchFunction
  <2> QED BY <2>1, GotoPlaces, ThreadNames
<1>3. ASSUME NEW t \in Senders, AskCommand(t) \/ CommandStep(t) PROVE Places'
  <2>1. \E l \in Commanding : Goto(t, l)
    BY <1>3 DEF AskCommand, CommandStep, SendStop, Exchange, StopReturns,
         LockWatched, Interrupt, EndSearch, Resume, SendOther, OtherReturns
  <2>2. t \in Threads /\ Commanding \subseteq PlacesOf(t)
    BY ThreadNames, PlacesAre
  <2> QED BY <2>1, <2>2, GotoPlaces
<1>4. ASSUME ReadList \/ ListStep PROVE Places'
  <2>1. \E l \in PlacesOf("reader") : Goto("reader", l)
    BY <1>4, PlacesAre DEF ReadList, ListStep, DispatchList, ListAlarm, LockDeal,
         ReportList, EndSearch
  <2> QED BY <2>1, GotoPlaces, ThreadNames
<1>5. ASSUME Expire \/ HandlerStep PROVE Places'
  <2>1. \E l \in PlacesOf("alarm") : Goto("alarm", l)
    BY <1>5, PlacesAre DEF Expire, HandlerStep, PerformTimeOut, ReportTimeout,
         EndSearch
  <2> QED BY <2>1, GotoPlaces, ThreadNames
<1>6. ASSUME NEW t \in Threads, ClearFlag(t) PROVE Places'
  <2>1. pc[t] \in FlagLabels /\ pc[t] \in PlacesOf(t)
        /\ Goto(t, AfterFlag(pc[t]))
    BY <1>6 DEF ClearFlag, Holders, Places
  <2>2. AfterFlag(pc[t]) \in PlacesOf(t)
    BY <2>1, AfterFlagIs, PlacesAre, ThreadNames DEF FlagLabels
  <2> QED BY <2>1, <2>2, GotoPlaces
<1> QED BY <1>1, <1>2, <1>3, <1>4, <1>5, <1>6 DEF Next, Ask, FlagStep

-----------------------------------------------------------------------------
(* Mutexes. *)

(* A thread that moves within or without the sections of the mutexes.      *)
LEMMA SameSections ==
  ASSUME Places, Holders, NEW t \in Threads, NEW l, Goto(t, l),
         UNCHANGED mutexes, pc[t] \notin FlagLabels,
         pc[t] \in HoldsSearch <=> l \in HoldsSearch,
         pc[t] \in Sending <=> l \in Sending
  PROVE  Holders'
<1>1. pc'[t] = l /\ \A u \in Threads \ {t} : pc'[u] = pc[u]
  BY GotoMoves
<1>2. UNCHANGED <<searchMutex, commandMutex, flagMutex>>
  BY DEF mutexes
<1> QED BY <1>1, <1>2, ThreadNames DEF Holders

(* A thread that takes or leaves the mutex of the search.                  *)
LEMMA SearchMutexMoves ==
  ASSUME Places, Holders, NEW t \in Hosts, NEW l, Goto(t, l),
         UNCHANGED <<commandMutex, flagMutex>>, pc[t] \notin FlagLabels,
         \/ searchMutex = Free /\ searchMutex' = t /\ l \in HoldsSearch
         \/ searchMutex = t /\ searchMutex' = Free /\ l \notin HoldsSearch,
         pc[t] \in Sending <=> l \in Sending
  PROVE  Holders'
<1>1. pc'[t] = l /\ \A u \in Threads \ {t} : pc'[u] = pc[u]
  BY GotoMoves, ThreadNames
<1> QED BY <1>1, ThreadNames DEF Holders, Free

(* A thread that takes or leaves the mutex of the command.                 *)
LEMMA CommandMutexMoves ==
  ASSUME Places, Holders, NEW t \in Senders, NEW l, Goto(t, l),
         UNCHANGED <<searchMutex, flagMutex>>, pc[t] \notin FlagLabels,
         \/ commandMutex = Free /\ commandMutex' = t /\ l \in Sending
         \/ commandMutex = t /\ commandMutex' = Free /\ l \notin Sending,
         pc[t] \in HoldsSearch <=> l \in HoldsSearch
  PROVE  Holders'
<1>1. pc'[t] = l /\ \A u \in Threads \ {t} : pc'[u] = pc[u]
  BY GotoMoves, ThreadNames
<1> QED BY <1>1, ThreadNames DEF Holders, Free

LEMMA SearchKeepsHolders ==
  ASSUME Places, Holders, AskSearch \/ SearchStep
  PROVE  Holders'
<1> USE DEF HoldsSearch, Searching, Beginning, Failing, Pausing, Dealing,
            Sending, FlagLabels
<1>0. "request" \in Threads /\ "request" \in Hosts
      /\ (pc["request"] \in HoldsSearch => searchMutex = "request")
  BY ThreadNames DEF Holders
<1>1. CASE AskSearch
  BY <1>0, <1>1, SearchMutexMoves DEF AskSearch, At
<1>2. CASE RefuseRepeat
  BY <1>0, <1>2, SearchMutexMoves DEF RefuseRepeat, At
<1>3. CASE InstallHandler
  <2>1. CASE Goto("request", "search command") /\ UNCHANGED mutexes
    BY <1>0, <1>3, <2>1, SameSections DEF InstallHandler, At
  <2>2. CASE Goto("request", "idle") /\ searchMutex' = Free
    BY <1>0, <1>3, <2>2, SearchMutexMoves DEF InstallHandler, At
  <2> QED BY <1>3, <2>1, <2>2 DEF InstallHandler, mutexes
<1>4. CASE SendSearch
  <2>1. CASE Goto("request", "refused")
    BY <1>0, <1>4, <2>1, SameSections DEF SendSearch, At
  <2>2. CASE Goto("request", "search wait")
    BY <1>0, <1>4, <2>2, SameSections DEF SendSearch, At
  <2> QED BY <1>4, <2>1, <2>2 DEF SendSearch, Exchange
<1>5. CASE SearchReturns
  <2>1. CASE Goto("request", "refused")
    BY <1>0, <1>5, <2>1, SameSections DEF SearchReturns, At
  <2>2. CASE Goto("request", "begun")
    BY <1>0, <1>5, <2>2, SameSections DEF SearchReturns, At
  <2> QED BY <1>5, <2>1, <2>2 DEF SearchReturns
<1>6. CASE KeepBegun
  BY <1>0, <1>6, SearchMutexMoves DEF KeepBegun, At
<1>7. CASE KeepRefused
  BY <1>0, <1>7, SameSections DEF KeepRefused, At
<1>8. CASE ReportRefused
  BY <1>0, <1>8, SameSections DEF ReportRefused, At
<1>9. CASE EndSearch("request", "fail end", "idle")
  BY <1>0, <1>9, SearchMutexMoves DEF EndSearch, At
<1>10. CASE SetWatchFunction
  BY <1>0, <1>10, SameSections DEF SetWatchFunction, At
<1> QED BY <1>1, <1>2, <1>3, <1>4, <1>5, <1>6, <1>7, <1>8, <1>9, <1>10
        DEF SearchStep

LEMMA CommandKeepsHolders ==
  ASSUME Places, Holders, NEW t \in Senders, AskCommand(t) \/ CommandStep(t)
  PROVE  Holders'
<1> USE DEF HoldsSearch, Searching, Beginning, Failing, Pausing, Dealing,
            Sending, FlagLabels
<1>0. /\ t \in Threads /\ t \in Hosts
      /\ pc[t] \in HoldsSearch => searchMutex = t
      /\ pc[t] \in Sending => commandMutex = t
  BY ThreadNames DEF Holders
<1>1. CASE AskCommand(t)
  BY <1>0, <1>1, CommandMutexMoves DEF AskCommand, At
<1>2. CASE SendStop(t)
  <2>1. CASE Goto(t, "watch")
    <3>1. commandMutex' = commandMutex
      BY <1>0, <1>2, <2>1, GotoMoves DEF SendStop, At
    <3> QED BY <1>0, <1>2, <2>1, <3>1, SameSections DEF SendStop, At, mutexes
  <2>2. CASE Goto(t, "stop wait")
    <3>1. commandMutex' = Free
      <4>1. pc'[t] = "stop wait"
        BY <1>0, <2>2, GotoMoves
      <4> QED BY <1>2, <4>1 DEF SendStop
    <3> QED BY <1>0, <1>2, <2>2, <3>1, CommandMutexMoves DEF SendStop, At
  <2> QED BY <1>2, <2>1, <2>2 DEF SendStop, Exchange
<1>3. CASE StopReturns(t)
  BY <1>0, <1>3, CommandMutexMoves DEF StopReturns, Returned, At
<1>4. CASE LockWatched(t)
  <2>1. CASE Goto(t, "interrupt") /\ searchMutex = Free /\ searchMutex' = t
    BY <1>0, <1>4, <2>1, SearchMutexMoves DEF LockWatched, At
  <2>2. CASE Goto(t, "resume") /\ searchMutex' = searchMutex
    BY <1>0, <1>4, <2>2, SameSections DEF LockWatched, At, mutexes
  <2> QED BY <1>4, <2>1, <2>2 DEF LockWatched
<1>5. CASE Interrupt(t)
  BY <1>0, <1>5, SameSections DEF Interrupt, At
<1>6. CASE EndSearch(t, "interrupt end", "resume")
  BY <1>0, <1>6, SearchMutexMoves DEF EndSearch, At
<1>7. CASE Resume(t)
  BY <1>0, <1>7, SameSections DEF Resume, At
<1>8. CASE SendOther(t)
  <2>1. \E l \in {"idle", "send wait"} : Goto(t, l)
    BY <1>8 DEF SendOther, Exchange
  <2> QED BY <1>0, <1>8, <2>1, CommandMutexMoves DEF SendOther, At
<1>9. CASE OtherReturns(t)
  BY <1>0, <1>9, SameSections DEF OtherReturns, At
<1> QED BY <1>1, <1>2, <1>3, <1>4, <1>5, <1>6, <1>7, <1>8, <1>9 DEF CommandStep

LEMMA ListKeepsHolders ==
  ASSUME Places, Holders, ReadList \/ ListStep
  PROVE  Holders'
<1> USE DEF HoldsSearch, Searching, Beginning, Failing, Pausing, Dealing,
            Sending, FlagLabels
<1>0. "reader" \in Threads /\ "reader" \in Hosts
      /\ (pc["reader"] \in HoldsSearch => searchMutex = "reader")
  BY ThreadNames DEF Holders
<1>1. CASE ReadList
  BY <1>0, <1>1, SameSections DEF ReadList, At
<1>2. CASE DispatchList
  <2>1. \E l \in {"idle", "list flag"} : Goto("reader", l)
    BY <1>2 DEF DispatchList
  <2> QED BY <1>0, <1>2, <2>1, SameSections DEF DispatchList, At
<1>3. CASE ListAlarm
  BY <1>0, <1>3, SameSections DEF ListAlarm, At
<1>4. CASE LockDeal
  BY <1>0, <1>4, SearchMutexMoves DEF LockDeal, At
<1>5. CASE ReportList
  BY <1>0, <1>5, SameSections DEF ReportList, At
<1>6. CASE EndSearch("reader", "deal end", "idle")
  BY <1>0, <1>6, SearchMutexMoves DEF EndSearch, At
<1> QED BY <1>1, <1>2, <1>3, <1>4, <1>5, <1>6 DEF ListStep

LEMMA HandlerKeepsHolders ==
  ASSUME Places, Holders, Expire \/ HandlerStep
  PROVE  Holders'
<1> USE DEF HoldsSearch, Searching, Beginning, Failing, Pausing, Dealing,
            Sending, FlagLabels
<1>1. "alarm" \in Threads
  BY ThreadNames
<1>2. searchMutex # "alarm"
  BY DEF Holders, Hosts, Senders, Free
<1>3. UNCHANGED mutexes
  BY <1>2 DEF Expire, HandlerStep, PerformTimeOut, ReportTimeout, EndSearch,
              mutexes
<1>4. /\ pc["alarm"] \in {"idle", "timeout", "timeout report", "timeout end"}
      /\ \E l \in {"idle", "timeout", "timeout report", "timeout flag"} :
           Goto("alarm", l)
  BY DEF Expire, HandlerStep, PerformTimeOut, ReportTimeout, EndSearch, At
<1> QED BY <1>1, <1>3, <1>4, SameSections

LEMMA StepKeepsHolders == Places /\ Holders /\ [Next]_vars => Holders'
<1> SUFFICES ASSUME Places, Holders, [Next]_vars PROVE Holders'
  OBVIOUS
<1>1. CASE UNCHANGED vars
  BY <1>1 DEF vars, mutexes, Holders
<1>2. ASSUME NEW t \in Threads, LockFlag(t) PROVE Holders'
  BY <1>2 DEF LockFlag, Holders
<1>3. ASSUME NEW t \in Threads, ClearFlag(t) PROVE Holders'
  <2>1. pc[t] \in FlagLabels /\ flagMutex = t /\ flagMutex' = Free
        /\ Goto(t, AfterFlag(pc[t])) /\ UNCHANGED <<searchMutex, commandMutex>>
    BY <1>3 DEF ClearFlag, Holders
  <2>2. /\ pc'[t] = AfterFlag(pc[t])
        /\ \A u \in Threads \ {t} : pc'[u] = pc[u]
    BY <2>1, GotoMoves
  <2>3. /\ pc[t] \in HoldsSearch <=> AfterFlag(pc[t]) \in HoldsSearch
        /\ pc[t] \in Sending <=> AfterFlag(pc[t]) \in Sending
    BY <2>1, AfterFlagIs DEF FlagLabels, HoldsSearch, Searching, Beginning,
       Failing, Pausing, Dealing, Sending
  <2>4. Free \notin Threads
    BY ThreadNames DEF Free
  <2> QED BY <2>1, <2>2, <2>3, <2>4, ThreadNames DEF Holders
<1> QED BY <1>1, <1>2, <1>3, SearchKeepsHolders, CommandKeepsHolders,
           ListKeepsHolders, HandlerKeepsHolders DEF Next, Ask, FlagStep

-----------------------------------------------------------------------------
(* Threads that wait for each other. *)

CommandWaits == {"search command", "search wait", "stop wait", "send wait", "line"}

LEMMA WantedIs ==
  ASSUME NEW t \in Threads
  PROVE  /\ pc[t] = "deal" \/ (pc[t] = "watch" /\ watch) => Wanted(t) = searchMutex
         /\ pc[t] \in CommandWaits => Wanted(t) = commandMutex
         /\ pc[t] \in {"timeout"} \union FlagLabels => Wanted(t) = flagMutex
         /\ Wanted(t) # Free =>
              \/ pc[t] = "deal" \/ (pc[t] = "watch" /\ watch)
              \/ pc[t] \in CommandWaits \union {"timeout"} \union FlagLabels
BY DEF Wanted, CommandWaits, FlagLabels, Free

(* Whom a thread of a stuck set waits for is in it.                        *)
LEMMA StuckGoesOn ==
  ASSUME NEW S \in SUBSET Threads, Stuck(S), NEW t \in S
  PROVE  IF host = t THEN "alarm" \in S
                     ELSE Wanted(t) \in S /\ Wanted(t) # t /\ Wanted(t) # Free
BY DEF Stuck, WaitsFor

LEMMA HoldersMakeNoCycles ==
  ASSUME Places, Holders, host # "alarm"
  PROVE  CyclesAreKnown
<1> SUFFICES ASSUME NEW S \in SUBSET Threads, Stuck(S),
                    ~(/\ pc["request"] \in {"search command", "search wait"}
                      /\ pc["background"] = "watch" /\ watch),
                    ~(pc["alarm"] \in {"timeout", "timeout flag"}
                        /\ host = flagMutex)
             PROVE  FALSE
  BY DEF CyclesAreKnown
<1>0. /\ \A t \in Hosts : searchMutex = t <=> pc[t] \in HoldsSearch
      /\ \A t \in Senders : commandMutex = t <=> pc[t] \in Sending
      /\ \A t \in Threads : flagMutex = t => pc[t] \in FlagLabels
      /\ searchMutex \in Hosts \union {Free}
      /\ commandMutex \in Senders \union {Free}
      /\ flagMutex \in Threads \union {Free}
  BY DEF Holders
(* Whoever holds the mutex of the flag waits for nobody, unless the        *)
(* handler runs on top of it.                                              *)
<1>1. ASSUME NEW h \in S, flagMutex = h, host # h PROVE FALSE
  <2>1. pc[h] \in FlagLabels
    BY <1>0, <1>1
  <2>2. Wanted(h) = h
    BY <1>1, <2>1, WantedIs
  <2> QED BY <1>1, <2>2, StuckGoesOn
<1>2. "alarm" \notin S
  <2> SUFFICES ASSUME "alarm" \in S PROVE FALSE
    OBVIOUS
  <2>1. Wanted("alarm") \in S /\ Wanted("alarm") # Free
    BY StuckGoesOn
  <2>2. pc["alarm"] \in {"timeout", "timeout flag"}
    <3>1. pc["alarm"] \in {"idle", "timeout"} \union TimingOut
      BY PlacesAre, ThreadNames DEF Places
    <3> QED BY <2>1, <3>1, WantedIs DEF TimingOut, CommandWaits, FlagLabels
  <2>3. Wanted("alarm") = flagMutex
    BY <2>2, WantedIs DEF FlagLabels
  <2> QED BY <1>1, <2>1, <2>2, <2>3
<1>3. \A t \in S : /\ host # t /\ Wanted(t) \in S
                   /\ Wanted(t) # t /\ Wanted(t) # Free
  BY <1>2, StuckGoesOn
<1>4. \A t \in S : pc[t] \notin FlagLabels
  <2> SUFFICES ASSUME NEW t \in S, pc[t] \in FlagLabels PROVE FALSE
    OBVIOUS
  <2>1. Wanted(t) = flagMutex
    BY WantedIs
  <2>2. flagMutex \in S /\ host # flagMutex
    BY <1>3, <2>1
  <2> QED BY <1>1, <2>2
(* Nobody of them waits for the reader.                                    *)
<1>5. \A t \in S : pc[t] \notin Dealing
  <2> SUFFICES ASSUME NEW t \in S, pc[t] \in Dealing PROVE FALSE
    OBVIOUS
  <2>1. pc[t] \in {"deal report", "deal end"}
    BY <1>4 DEF Dealing, FlagLabels
  <2> QED BY <1>3, <2>1, WantedIs DEF CommandWaits, FlagLabels
<1>6. \A t \in S : Wanted(t) \in Senders
  <2> SUFFICES ASSUME NEW t \in S, Wanted(t) \notin Senders PROVE FALSE
    OBVIOUS
  <2>1. Wanted(t) = "reader" /\ Wanted(t) \in S
    BY <1>2, <1>3, ThreadNames
  <2>2. pc["reader"] \in {"idle", "line"} \union Listing
    BY PlacesAre, ThreadNames DEF Places
  <2>3. commandMutex # "reader"
    BY <1>0, ThreadNames DEF Free
  <2>4. pc[t] # "timeout"
    <3>1. t \in {"request", "background", "reader"}
      BY <1>2, ThreadNames
    <3> QED BY <3>1, PlacesAre, ThreadNames DEF Places, Commanding, Searching,
        Beginning, Failing, Sending, Pausing, Listing, Dealing
  <2>5. searchMutex = "reader"
    BY <1>3, <1>4, <2>1, <2>3, <2>4, WantedIs
  <2>6. pc["reader"] \in HoldsSearch
    BY <1>0, <2>5, ThreadNames
  <2>7. pc["reader"] \in Dealing
    BY <2>2, <2>6 DEF HoldsSearch, Listing, Searching, Beginning, Failing,
       Pausing, Dealing
  <2> QED BY <1>5, <2>1, <2>7
(* A sender of them that waits for the search is pausing it, and waits for *)
(* the request thread, which waits for a command in the midst of a search. *)
<1>7. ASSUME NEW t \in S, t \in Senders, pc[t] = "watch", watch PROVE FALSE
  <2>1. Wanted(t) = searchMutex
    BY <1>7, WantedIs
  <2> DEFINE g == Wanted(t)
  <2>2. g \in S /\ g \in Senders /\ g # t /\ pc[g] \in HoldsSearch
    BY <1>0, <1>3, <1>6, <2>1, ThreadNames
  <2>3. pc[g] \in CommandWaits
    <3>1. /\ \/ pc[g] = "deal" \/ pc[g] = "watch"
             \/ pc[g] \in CommandWaits \union {"timeout"} \union FlagLabels
          /\ pc[g] \notin FlagLabels
      BY <1>3, <1>4, <2>2, WantedIs
    <3> HIDE DEF g
    <3> QED BY <2>2, <3>1 DEF HoldsSearch, Searching, Beginning, Failing,
                              Pausing, Dealing
  <2>4. pc[g] \in {"search command", "search wait"}
    <3> HIDE DEF g
    <3> QED BY <2>2, <2>3 DEF CommandWaits, HoldsSearch, Searching, Beginning,
                              Failing, Pausing, Dealing
  <2>5. g = "request"
    <3>1. pc["background"] \in Commanding
      BY PlacesAre, ThreadNames DEF Places
    <3> HIDE DEF g
    <3> QED BY <2>2, <2>4, <3>1, ThreadNames DEF Commanding, Sending, Pausing
  <2>6. t = "background"
    <3> HIDE DEF g
    <3> QED BY <1>7, <2>2, <2>5, ThreadNames
  <2> HIDE DEF g
  <2> QED BY <1>7, <2>4, <2>5, <2>6
<1>8. ASSUME NEW t \in S, t \in Senders PROVE FALSE
  <2>1. pc[t] \in CommandWaits
    <3>1. /\ \/ pc[t] = "deal" \/ (pc[t] = "watch" /\ watch)
             \/ pc[t] \in CommandWaits \union {"timeout"} \union FlagLabels
          /\ pc[t] \notin FlagLabels
      BY <1>3, <1>4, WantedIs
    <3>2. pc[t] \notin {"deal", "timeout"}
      BY <1>8, PlacesAre, ThreadNames DEF Places, Commanding, Searching,
         Beginning, Failing, Sending, Pausing
    <3> QED BY <1>7, <1>8, <3>1, <3>2
  <2> DEFINE g == Wanted(t)
  <2>2. g = commandMutex /\ g \in S /\ g \in Senders /\ pc[g] \in Sending
    BY <1>0, <1>3, <1>6, <2>1, WantedIs
  <2>3. /\ \/ pc[g] = "deal" \/ (pc[g] = "watch" /\ watch)
           \/ pc[g] \in CommandWaits \union {"timeout"} \union FlagLabels
        /\ pc[g] \notin FlagLabels
    BY <1>3, <1>4, <2>2, WantedIs
  <2> HIDE DEF g
  <2>4. pc[g] = "watch" /\ watch
    BY <2>2, <2>3 DEF Sending, Pausing, CommandWaits, FlagLabels
  <2> QED BY <1>7, <2>2, <2>4
<1> QED
  <2>1. PICK t \in S : TRUE
    BY DEF Stuck
  <2>2. Wanted(t) \in S /\ Wanted(t) \in Senders
    BY <1>3, <1>6
  <2> QED BY <1>8, <2>2

-----------------------------------------------------------------------------
(* Types. *)

Records == [Searches -> Seq(Answers)]

Values ==
  /\ host \in Hosts \union {"elsewhere", Nobody}
  /\ pauseFlag \in BOOLEAN /\ watch \in BOOLEAN /\ armed \in BOOLEAN
  /\ kept \in Searches \union {NoSearch} /\ keptError \in Errors
  /\ asked \in Searches \union {NoSearch}
  /\ answers \in Records
  /\ response \in Senders \union {Nobody}
  /\ prefix \in BOOLEAN /\ owed \in Seq(Searches)
  /\ line \in [list : Searches \union {NoSearch}, matches : BOOLEAN]
  /\ commands \in 0..MaxCommands
  /\ lapses \subseteq {"repeat", "unwatched", "late handler", "no handler"}

(* The search that is kept, and the one being begun, have been asked for,  *)
(* and the latter is neither kept nor answered yet.                        *)
Asked ==
  /\ kept <= asked
  /\ pc["request"] \in Searching => asked # NoSearch
  /\ pc["request"] \in {"look"} \union Beginning =>
       answers[asked] = <<>> /\ kept # asked
  /\ pc["request"] \in Beginning => kept = NoSearch
  /\ \A s \in Searches : answers[s] # <<>> => s <= asked

Answer(by, error, list) ==
  [by |-> by, error |-> error, list |-> list, beside |-> pc["alarm"] # "idle"]

(* A search has been told one thing more, and the others nothing.          *)
Told(s, a) ==
  /\ answers' \in Records
  /\ \A u \in Searches \ {s} : answers'[u] = answers[u]
  /\ Len(answers'[s]) = Len(answers[s]) + 1
  /\ \A i \in 1..Len(answers[s]) : answers'[s][i] = answers[s][i]
  /\ answers'[s][Len(answers[s]) + 1] = a

LEMMA TellTells ==
  ASSUME Values, NEW s \in Searches, NEW by \in Makers, NEW error \in Errors,
         NEW list \in Searches \union {NoSearch}, Tell(s, by, error, list)
  PROVE  Told(s, Answer(by, error, list))
<1> DEFINE a == Answer(by, error, list)
<1>1. a \in Answers
  BY DEF Answer, Answers
<1>2. answers \in Records /\ answers[s] \in Seq(Answers)
  BY DEF Values, Records
<1>3. answers' = [answers EXCEPT ![s] = Append(answers[s], a)]
  BY DEF Tell, Answer
<1> HIDE DEF a
<1>4. /\ Append(answers[s], a) \in Seq(Answers)
      /\ Len(Append(answers[s], a)) = Len(answers[s]) + 1
      /\ \A i \in 1..Len(answers[s]) : Append(answers[s], a)[i] = answers[s][i]
      /\ Append(answers[s], a)[Len(answers[s]) + 1] = a
  BY <1>1, <1>2
<1>5. /\ answers'[s] = Append(answers[s], a) /\ answers' \in Records
      /\ \A u \in Searches \ {s} : answers'[u] = answers[u]
  BY <1>2, <1>3, <1>4 DEF Records
<1>6. Told(s, a)
  BY <1>4, <1>5 DEF Told
<1> QED BY <1>6 DEF a

LEMMA ReportTells ==
  ASSUME Values, NEW by \in Makers, NEW error \in Errors,
         NEW list \in Searches \union {NoSearch}, Report(by, error, list)
  PROVE  \/ kept = NoSearch /\ answers' = answers
         \/ kept \in Searches /\ Told(kept, Answer(by, error, list))
<1>1. kept = NoSearch \/ kept \in Searches
  BY DEF Values
<1> QED BY <1>1, TellTells DEF Report, NoSearch

(* Who was asked for stays so.                                             *)
LEMMA ReportKeepsAnswers ==
  ASSUME Values, NEW by \in Makers, NEW error \in Errors,
         NEW list \in Searches \union {NoSearch}, Report(by, error, list)
  PROVE  answers' \in Records
BY ReportTells DEF Told, Values

LEMMA SearchNumbers ==
  /\ Searches \subseteq Nat /\ NoSearch = 0 /\ NoSearch \notin Searches
  /\ \A n \in Searches \union {NoSearch} :
       n < MaxSearches => n + 1 \in Searches
BY BoundAssumption DEF Searches, NoSearch

LEMMA SearchKeepsValues ==
  ASSUME Values, Asked, AskSearch \/ SearchStep
  PROVE  Values'
<1>1. asked \in Searches \union {NoSearch}
      /\ (pc["request"] \in Searching => asked \in Searches)
  BY DEF Values, Asked
<1>2. CASE AskSearch
  <2>1. asked' \in Searches
    BY <1>1, <1>2, SearchNumbers DEF AskSearch
  <2>2. /\ lapses' \subseteq {"repeat", "unwatched", "late handler", "no handler"}
        /\ armed' = FALSE
        /\ UNCHANGED <<host, search, pauseFlag, watch, modem, line, commands>>
    BY <1>2 DEF AskSearch, Values
  <2> QED BY <2>1, <2>2 DEF Values, search, modem
<1>3. CASE RefuseRepeat
  <2>1. answers' \in Records
    <3>1. asked \in Searches
      BY <1>1, <1>3 DEF RefuseRepeat, At, Searching
    <3> QED BY <1>3, <3>1, TellTells
            DEF RefuseRepeat, Told, Makers, Errors
  <2>2. UNCHANGED <<host, kept, keptError, guard, modem, line, calls, lapses>>
    BY <1>3 DEF RefuseRepeat
  <2> QED BY <2>1, <2>2 DEF Values, guard, modem, calls
<1>4. CASE InstallHandler
  <2>1. /\ lapses' \subseteq {"repeat", "unwatched", "late handler", "no handler"}
        /\ UNCHANGED <<host, search, guard, modem, line, calls>>
    BY <1>4 DEF InstallHandler, Values
  <2> QED BY <2>1 DEF Values, search, guard, modem, calls
<1>5. CASE SendSearch
  <2>1. owed' \in Seq(Searches)
    <3>1. asked \in Searches /\ owed \in Seq(Searches)
      BY <1>1, <1>5 DEF SendSearch, At, Searching, Beginning, Values
    <3>2. owed' = owed \/ owed' = Append(owed, asked)
      BY <1>5 DEF SendSearch
    <3> QED BY <3>1, <3>2
  <2>2. response' \in Senders \union {Nobody} /\ prefix' \in BOOLEAN
        /\ pauseFlag' = TRUE
    BY <1>5, ThreadNames DEF SendSearch, Exchange, Values
  <2>3. UNCHANGED <<host, search, watch, armed, line, calls, lapses>>
    BY <1>5 DEF SendSearch
  <2> QED BY <2>1, <2>2, <2>3 DEF Values, search, calls
<1>6. CASE SearchReturns
  <2>1. response' = Nobody /\ prefix' \in BOOLEAN
    BY <1>6 DEF SearchReturns, Returned, Values
  <2>2. UNCHANGED <<host, search, guard, owed, line, calls, lapses>>
    BY <1>6 DEF SearchReturns
  <2> QED BY <2>1, <2>2 DEF Values, search, guard, calls
<1>7. CASE KeepBegun \/ KeepRefused
  <2>1. kept' = asked /\ keptError' = "success" /\ armed' \in BOOLEAN
    BY <1>7 DEF KeepBegun, KeepRefused, guard, Values
  <2>2. UNCHANGED <<host, answers, pauseFlag, watch, modem, line, calls, lapses>>
    BY <1>7 DEF KeepBegun, KeepRefused, guard
  <2> QED BY <2>1, <2>2 DEF Values, modem, calls, Errors
<1>8. CASE ReportRefused
  <2>1. answers' \in Records
    BY <1>8, ReportKeepsAnswers DEF ReportRefused, Makers, Errors
  <2>2. keptError' \in Errors
        /\ UNCHANGED <<host, kept, guard, modem, line, calls, lapses>>
    BY <1>8 DEF ReportRefused, Errors
  <2> QED BY <2>1, <2>2 DEF Values, guard, modem, calls
<1>9. CASE EndSearch("request", "fail end", "idle")
  <2>1. kept' = NoSearch /\ UNCHANGED <<host, keptError, answers, guard, modem,
                                        line, calls, lapses>>
    BY <1>9 DEF EndSearch
  <2> QED BY <2>1 DEF Values, guard, modem, calls
<1>10. CASE SetWatchFunction
  <2>1. watch' = TRUE /\ UNCHANGED <<host, search, pauseFlag, armed, modem, line,
                                     calls, lapses>>
    BY <1>10 DEF SetWatchFunction
  <2> QED BY <2>1 DEF Values, search, modem, calls
<1> QED BY <1>2, <1>3, <1>4, <1>5, <1>6, <1>7, <1>8, <1>9, <1>10 DEF SearchStep

LEMMA CommandKeepsValues ==
  ASSUME Values, NEW t \in Senders, AskCommand(t) \/ CommandStep(t)
  PROVE  Values'
<1>1. CASE AskCommand(t)
  <2>1. commands' \in 0..MaxCommands
    <3>1. commands \in 0..MaxCommands /\ commands < MaxCommands
          /\ commands' = commands + 1
      BY <1>1 DEF AskCommand, Values
    <3> QED BY <3>1, BoundAssumption
  <2>2. UNCHANGED <<host, search, guard, modem, line, asked, lapses>>
    BY <1>1 DEF AskCommand
  <2> QED BY <2>1, <2>2 DEF Values, search, guard, modem
<1>2. CASE SendStop(t) \/ SendOther(t)
  <2>1. response' \in Senders \union {Nobody} /\ prefix' \in BOOLEAN
    BY <1>2 DEF SendStop, SendOther, Exchange, Values
  <2>2. UNCHANGED <<host, search, guard, owed, line, calls, lapses>>
    BY <1>2 DEF SendStop, SendOther
  <2> QED BY <2>1, <2>2 DEF Values, search, guard, calls
<1>3. CASE StopReturns(t) \/ OtherReturns(t)
  <2>1. response' = Nobody /\ prefix' \in BOOLEAN
    BY <1>3 DEF StopReturns, OtherReturns, Returned, Values
  <2>2. UNCHANGED <<host, search, guard, owed, line, calls, lapses>>
    BY <1>3 DEF StopReturns, OtherReturns
  <2> QED BY <2>1, <2>2 DEF Values, search, guard, calls
<1>4. CASE LockWatched(t)
  <2>1. /\ lapses' \subseteq {"repeat", "unwatched", "late handler", "no handler"}
        /\ UNCHANGED <<host, search, guard, modem, line, calls>>
    BY <1>4 DEF LockWatched, Values
  <2> QED BY <2>1 DEF Values, search, guard, modem, calls
<1>5. CASE Interrupt(t)
  <2>1. answers' \in Records
    BY <1>5, ReportKeepsAnswers DEF Interrupt, Makers, Errors
  <2>2. keptError' \in Errors
        /\ UNCHANGED <<host, kept, guard, modem, line, calls, lapses>>
    BY <1>5 DEF Interrupt, Errors
  <2> QED BY <2>1, <2>2 DEF Values, guard, modem, calls
<1>6. CASE EndSearch(t, "interrupt end", "resume")
  <2>1. kept' = NoSearch /\ host' \in {host, Nobody}
        /\ UNCHANGED <<keptError, answers, guard, modem, line, calls, lapses>>
    BY <1>6 DEF EndSearch
  <2> QED BY <2>1 DEF Values, guard, modem, calls
<1>7. CASE Resume(t)
  <2>1. pauseFlag' = FALSE /\ armed' = FALSE
        /\ UNCHANGED <<host, search, watch, modem, line, calls, lapses>>
    BY <1>7 DEF Resume
  <2> QED BY <2>1 DEF Values, search, modem, calls
<1> QED BY <1>1, <1>2, <1>3, <1>4, <1>5, <1>6, <1>7 DEF CommandStep

LEMMA ListKeepsValues ==
  ASSUME Values, ReadList \/ ListStep
  PROVE  Values'
<1>1. CASE ReadList
  <2>1. owed \in Seq(Searches) /\ owed # <<>>
    BY <1>1 DEF ReadList, Values
  <2>2. Head(owed) \in Searches /\ Tail(owed) \in Seq(Searches)
    BY <2>1
  <2>3. owed' \in Seq(Searches)
        /\ line' \in [list : Searches \union {NoSearch}, matches : BOOLEAN]
    BY <1>1, <2>2 DEF ReadList, Values
  <2>4. UNCHANGED <<host, search, guard, response, prefix, calls, lapses>>
    BY <1>1 DEF ReadList
  <2> QED BY <2>3, <2>4 DEF Values, search, guard, calls
<1>2. CASE DispatchList \/ LockDeal
  <2>1. line' \in {line, NoLine}
        /\ UNCHANGED <<host, search, guard, modem, calls, lapses>>
    BY <1>2 DEF DispatchList, LockDeal
  <2>2. line' \in [list : Searches \union {NoSearch}, matches : BOOLEAN]
    <3>1. NoLine \in [list : Searches \union {NoSearch}, matches : BOOLEAN]
      BY DEF NoLine
    <3> QED BY <2>1, <3>1 DEF Values
  <2> QED BY <2>1, <2>2 DEF Values, search, guard, modem, calls
<1>3. CASE ListAlarm
  <2>1. line' \in [list : Searches \union {NoSearch}, matches : BOOLEAN]
        /\ armed' = FALSE
        /\ UNCHANGED <<host, search, pauseFlag, watch, modem, calls, lapses>>
    BY <1>3 DEF ListAlarm, Values
  <2> QED BY <2>1 DEF Values, search, modem, calls
<1>4. CASE ReportList
  <2>1. keptError' \in Errors /\ line.list \in Searches \union {NoSearch}
    BY <1>4 DEF ReportList, Values, Errors
  <2>2. answers' \in Records
    BY <1>4, <2>1, ReportKeepsAnswers DEF ReportList, Makers
  <2>3. line' = NoLine /\ armed' = FALSE
        /\ UNCHANGED <<host, kept, pauseFlag, watch, modem, calls, lapses>>
    BY <1>4 DEF ReportList
  <2> QED BY <2>1, <2>2, <2>3 DEF Values, modem, calls, NoLine
<1>5. CASE EndSearch("reader", "deal end", "idle")
  <2>1. kept' = NoSearch /\ UNCHANGED <<host, keptError, answers, guard, modem,
                                        line, calls, lapses>>
    BY <1>5 DEF EndSearch
  <2> QED BY <2>1 DEF Values, guard, modem, calls
<1> QED BY <1>1, <1>2, <1>3, <1>4, <1>5 DEF ListStep

LEMMA HandlerKeepsValues ==
  ASSUME Values, Expire \/ HandlerStep
  PROVE  Values'
<1>1. CASE Expire
  <2>1. host' \in Hosts \union {"elsewhere"} /\ armed' = FALSE
        /\ UNCHANGED <<search, pauseFlag, watch, modem, line, calls, lapses>>
    BY <1>1 DEF Expire
  <2> QED BY <2>1 DEF Values, search, modem, calls
<1>2. CASE PerformTimeOut
  <2>1. host' \in {host, Nobody} /\ keptError' \in {keptError, "timeout"}
        /\ UNCHANGED <<kept, answers, guard, modem, line, calls, lapses>>
    BY <1>2 DEF PerformTimeOut
  <2>2. keptError' \in Errors
    BY <2>1 DEF Values, Errors
  <2>3. host' \in Hosts \union {"elsewhere", Nobody}
    BY <2>1 DEF Values
  <2> QED BY <2>1, <2>2, <2>3 DEF Values, guard, modem, calls
<1>3. CASE ReportTimeout
  <2>1. answers' \in Records
    BY <1>3, ReportKeepsAnswers DEF ReportTimeout, Makers, Values
  <2>2. UNCHANGED <<host, kept, keptError, guard, modem, line, calls, lapses>>
    BY <1>3 DEF ReportTimeout
  <2> QED BY <2>1, <2>2 DEF Values, guard, modem, calls
<1>4. CASE EndSearch("alarm", "timeout end", "idle")
  <2>1. kept' = NoSearch /\ host' = Nobody
        /\ UNCHANGED <<keptError, answers, guard, modem, line, calls, lapses>>
    BY <1>4 DEF EndSearch
  <2> QED BY <2>1 DEF Values, guard, modem, calls
<1> QED BY <1>1, <1>2, <1>3, <1>4 DEF HandlerStep

LEMMA StepKeepsValues == Values /\ Asked /\ [Next]_vars => Values'
<1> SUFFICES ASSUME Values, Asked, [Next]_vars PROVE Values'
  OBVIOUS
<1>1. ASSUME UNCHANGED vars \/ \E t \in Threads : LockFlag(t) PROVE Values'
  <2>1. UNCHANGED <<host, search, guard, modem, line, calls, lapses>>
    BY <1>1 DEF vars, LockFlag
  <2> QED BY <2>1 DEF Values, search, guard, modem, calls
<1>2. ASSUME NEW t \in Threads, ClearFlag(t) PROVE Values'
  <2>1. pauseFlag' = FALSE
        /\ UNCHANGED <<host, search, watch, armed, modem, line, calls, lapses>>
    BY <1>2 DEF ClearFlag
  <2> QED BY <2>1 DEF Values, search, modem, calls
<1> QED BY <1>1, <1>2, SearchKeepsValues, CommandKeepsValues, ListKeepsValues,
           HandlerKeepsValues DEF Next, Ask, FlagStep

-----------------------------------------------------------------------------
(* The answers to a search. *)

Reported ==
  \/ pc["request"] = "fail end"
  \/ \E t \in Senders : pc[t] \in {"interrupt flag", "interrupt end"}
  \/ pc["reader"] = "deal end"

(* Nobody but the handler has reported the kept search, until it is about  *)
(* to be let go.                                                           *)
Unreported ==
  kept # NoSearch => \/ Reported
                     \/ \A i \in 1..Len(answers[kept]) :
                          answers[kept][i].by = "alarm"

(* And its error is nobody's, unless the handler is at work.               *)
ErrorIsFresh ==
  kept # NoSearch /\ pc["alarm"] \notin TimingOut
    => Reported \/ keptError = "success"

TwiceByAlarm ==
  \A s \in Searches : Len(answers[s]) > 1 =>
    \E i \in 1..Len(answers[s]) : answers[s][i].by = "alarm"

OwnErrors ==
  \A s \in Searches : \A i \in 1..Len(answers[s]) :
    \/ answers[s][i].error \in ErrorsOf[answers[s][i].by]
    \/ answers[s][i].beside

Answered == Asked /\ Unreported /\ ErrorIsFresh /\ TwiceByAlarm /\ OwnErrors

(* One more answer: the first, or after the handler's, or the handler's.   *)
LEMMA ToldKeepsAnswers ==
  ASSUME Values, TwiceByAlarm, OwnErrors, NEW s \in Searches, NEW a, Told(s, a),
         \/ a.by = "alarm"
         \/ \A i \in 1..Len(answers[s]) : answers[s][i].by = "alarm",
         a.error \in ErrorsOf[a.by] \/ a.beside
  PROVE  TwiceByAlarm' /\ OwnErrors'
<1>1. /\ Len(answers'[s]) = Len(answers[s]) + 1
      /\ \A i \in 1..Len(answers[s]) : answers'[s][i] = answers[s][i]
      /\ answers'[s][Len(answers[s]) + 1] = a
      /\ \A u \in Searches \ {s} : answers'[u] = answers[u]
  BY DEF Told
<1>2. Len(answers[s]) \in Nat
  <2>1. answers[s] \in Seq(Answers)
    BY DEF Values, Records
  <2> QED BY <2>1
<1>3. \A i \in 1..Len(answers'[s]) : \/ i \in 1..Len(answers[s])
                                     \/ i = Len(answers[s]) + 1
  BY <1>1, <1>2
<1>4. TwiceByAlarm'
  <2> SUFFICES ASSUME NEW u \in Searches, Len(answers'[u]) > 1
               PROVE  \E i \in 1..Len(answers'[u]) : answers'[u][i].by = "alarm"
    BY DEF TwiceByAlarm
  <2>1. CASE u # s
    BY <1>1, <2>1 DEF TwiceByAlarm
  <2>2. CASE u = s /\ a.by = "alarm"
    <3>1. Len(answers[s]) + 1 \in 1..Len(answers'[s])
      BY <1>1, <1>2
    <3> QED BY <1>1, <2>2, <3>1
  <2>3. CASE u = s /\ a.by # "alarm"
    <3>1. /\ 1 \in 1..Len(answers[s]) /\ 1 \in 1..Len(answers'[s])
          /\ answers[s][1].by = "alarm"
      BY <1>1, <1>2, <2>3
    <3> QED BY <1>1, <2>3, <3>1
  <2> QED BY <2>1, <2>2, <2>3
<1>5. OwnErrors'
  BY <1>1, <1>3 DEF OwnErrors
<1> QED BY <1>4, <1>5

(* A step that neither keeps nor tells nor asks, and moves on to nowhere   *)
(* where more is promised.                                                 *)
LEMMA QuietKeepsAnswers ==
  ASSUME Answered, UNCHANGED <<kept, keptError, answers, asked>>,
         pc'["request"] \in Searching => pc["request"] \in Searching,
         pc'["request"] \in {"look"} \union Beginning =>
           pc["request"] \in {"look"} \union Beginning,
         pc'["request"] \in Beginning =>
           pc["request"] \in Beginning \/ kept = NoSearch,
         Reported => Reported',
         pc["alarm"] \in TimingOut => pc'["alarm"] \in TimingOut \/ kept = NoSearch
  PROVE  Answered'
<1>1. Asked'
  BY DEF Answered, Asked
<1>2. Unreported' /\ ErrorIsFresh'
  BY DEF Answered, Unreported, ErrorIsFresh
<1>3. TwiceByAlarm' /\ OwnErrors'
  BY DEF Answered, TwiceByAlarm, OwnErrors
<1> QED BY <1>1, <1>2, <1>3 DEF Answered

(* Whoever reports under the mutex of the search finds nothing reported.   *)
LEMMA HolderFindsUnreported ==
  ASSUME Places, Holders, NEW t \in Hosts, pc[t] \in HoldsSearch,
         pc[t] \notin {"fail end", "interrupt flag", "interrupt end", "deal end"}
  PROVE  ~Reported
<1>1. searchMutex = t
  BY DEF Holders
<1>2. \A u \in Hosts \ {t} : pc[u] \notin HoldsSearch
  BY <1>1 DEF Holders
<1>3. {"fail end", "interrupt flag", "interrupt end", "deal end"}
        \subseteq HoldsSearch
  BY DEF HoldsSearch, Searching, Failing, Pausing, Dealing
<1>4. \A u \in Hosts :
        pc[u] \notin {"fail end", "interrupt flag", "interrupt end", "deal end"}
  BY <1>2, <1>3
<1>5. Senders \subseteq Hosts /\ "request" \in Hosts /\ "reader" \in Hosts
  BY ThreadNames
<1> QED BY <1>4, <1>5 DEF Reported

(* A report, made on the way to a label after which the search is let go.  *)
LEMMA ReportKeepsAnswered ==
  ASSUME Places, Holders, Values, Answered, NEW t \in Hosts,
         NEW by \in Makers, NEW error \in Errors,
         NEW list \in Searches \union {NoSearch},
         Report(by, error, list), UNCHANGED <<kept, asked>>,
         pc[t] \in HoldsSearch,
         pc[t] \notin {"fail end", "interrupt flag", "interrupt end", "deal end"},
         pc'["request"] \notin {"look"} \union Beginning,
         pc'["request"] \in Searching => pc["request"] \in Searching,
         Reported',
         kept # NoSearch => \/ error \in ErrorsOf[by]
                            \/ pc["alarm"] # "idle"
  PROVE  Answered'
<1>1. CASE kept = NoSearch /\ answers' = answers
  <2>1. Asked' /\ TwiceByAlarm' /\ OwnErrors'
    BY <1>1 DEF Answered, Asked, TwiceByAlarm, OwnErrors, Searching
  <2> QED BY <2>1 DEF Answered, Unreported, ErrorIsFresh
<1>2. CASE kept \in Searches /\ Told(kept, Answer(by, error, list))
  <2>1. \A i \in 1..Len(answers[kept]) : answers[kept][i].by = "alarm"
    BY <1>2, HolderFindsUnreported, SearchNumbers DEF Answered, Unreported
  <2> DEFINE a == Answer(by, error, list)
  <2>2. a.error \in ErrorsOf[a.by] \/ a.beside
    BY <1>2, SearchNumbers DEF Answer
  <2> HIDE DEF a
  <2>3. TwiceByAlarm' /\ OwnErrors'
    BY <1>2, <2>1, <2>2, ToldKeepsAnswers DEF a, Answered
  <2>4. Asked'
    BY <1>2, SearchNumbers DEF Answered, Asked, Told
  <2> QED BY <2>3, <2>4 DEF Answered, Unreported, ErrorIsFresh
<1> QED BY <1>1, <1>2, ReportTells

(* Where the steps that tell nothing go.                                   *)
LEMMA QuietMoveKeepsAnswered ==
  ASSUME Places, Answered, UNCHANGED <<kept, keptError, answers, asked>>,
         NEW t \in Threads, NEW l, Goto(t, l),
         l \notin Searching \/ (pc[t] \in Beginning /\ l \in Beginning),
         pc[t] \notin {"fail end", "interrupt flag", "interrupt end", "deal end"},
         pc[t] \notin TimingOut
  PROVE  Answered'
<1>1. pc'[t] = l /\ \A u \in Threads \ {t} : pc'[u] = pc[u]
  BY GotoMoves
<1>2. /\ pc'["request"] \in Searching => pc["request"] \in Searching
      /\ pc'["request"] \in {"look"} \union Beginning =>
           pc["request"] \in {"look"} \union Beginning
      /\ pc'["request"] \in Beginning => pc["request"] \in Beginning
      /\ pc["alarm"] \in TimingOut => pc'["alarm"] \in TimingOut
  BY <1>1, ThreadNames DEF Searching
<1>3. Reported => Reported'
  BY <1>1, ThreadNames DEF Reported
<1> QED BY <1>2, <1>3, QuietKeepsAnswers

(* A search that is let go.                                                *)
LEMMA EndKeepsAnswered ==
  ASSUME Places, Values, Answered, NEW t \in Threads, NEW label,
         NEW next \in {"idle", "resume"}, EndSearch(t, label, next)
  PROVE  Answered'
<1>1. /\ kept' = NoSearch /\ UNCHANGED <<keptError, answers, asked>>
      /\ Goto(t, next)
  BY DEF EndSearch, calls
<1>2. pc'[t] = next /\ \A u \in Threads \ {t} : pc'[u] = pc[u]
  BY <1>1, GotoMoves
<1>3. NoSearch <= asked
  <2>1. asked \in Searches \union {NoSearch}
    BY DEF Values
  <2>2. asked \in Nat
    BY <2>1, SearchNumbers
  <2> QED BY <2>2, SearchNumbers
<1>4. pc'["request"] \in Searching => pc'["request"] = pc["request"]
  BY <1>2, ThreadNames DEF Searching, Beginning, Failing
<1>5. Asked'
  BY <1>1, <1>3, <1>4 DEF Answered, Asked, Searching
<1>6. Unreported' /\ ErrorIsFresh' /\ TwiceByAlarm' /\ OwnErrors'
  BY <1>1 DEF Answered, Unreported, ErrorIsFresh, TwiceByAlarm, OwnErrors
<1> QED BY <1>5, <1>6 DEF Answered

LEMMA SearchKeepsAnswered ==
  ASSUME Places, Holders, Values, Answered, AskSearch \/ SearchStep
  PROVE  Answered'
<1> USE DEF Searching, Beginning, Failing, TimingOut
<1>0. /\ "request" \in Threads /\ "request" \in Hosts
      /\ asked \in Searches \union {NoSearch} /\ kept \in Searches \union {NoSearch}
      /\ pc["request"] \in Searching => asked \in Searches
      /\ Asked /\ Unreported /\ ErrorIsFresh /\ TwiceByAlarm /\ OwnErrors
  BY ThreadNames DEF Values, Answered, Asked
<1>1. CASE AskSearch
  <2>1. /\ asked' = asked + 1 /\ UNCHANGED <<kept, keptError, answers>>
        /\ Goto("request", "look") /\ pc["request"] = "idle" /\ asked < MaxSearches
    BY <1>1 DEF AskSearch, At, search
  <2>2. pc'["request"] = "look" /\ \A u \in Threads \ {"request"} : pc'[u] = pc[u]
    BY <1>0, <2>1, GotoMoves
  <2>3. /\ asked \in Nat /\ kept \in Nat /\ asked' \in Searches /\ kept <= asked
        /\ \A s \in Searches : s \in Nat /\ (answers[s] # <<>> => s <= asked)
    BY <1>0, <2>1, SearchNumbers DEF Asked
  <2>4. Asked'
    <3>1. kept <= asked' /\ kept # asked' /\ asked' # NoSearch
          /\ \A s \in Searches : s <= asked => s <= asked'
      BY <2>1, <2>3, SearchNumbers
    <3>2. answers[asked'] = <<>>
      <4>1. ~(asked' <= asked)
        BY <2>1, <2>3
      <4> QED BY <2>3, <4>1
    <3> QED BY <2>1, <2>2, <2>3, <3>1, <3>2 DEF Asked
  <2>5. Reported' <=> Reported
    BY <2>1, <2>2, ThreadNames DEF Reported
  <2>6. Unreported' /\ ErrorIsFresh'
    BY <1>0, <2>1, <2>2, <2>5, ThreadNames DEF Unreported, ErrorIsFresh
  <2>7. TwiceByAlarm' /\ OwnErrors'
    BY <1>0, <2>1 DEF TwiceByAlarm, OwnErrors
  <2> QED BY <2>4, <2>6, <2>7 DEF Answered
<1>2. CASE RefuseRepeat
  <2>1. /\ Told(asked, Answer("repeat", "searching", NoSearch))
        /\ UNCHANGED <<kept, keptError, asked>> /\ Goto("request", "idle")
        /\ pc["request"] = "look"
    BY <1>0, <1>2, TellTells DEF RefuseRepeat, At, calls, Makers, Errors
  <2>2. pc'["request"] = "idle" /\ \A u \in Threads \ {"request"} : pc'[u] = pc[u]
    BY <1>0, <2>1, GotoMoves
  <2>3. answers[asked] = <<>> /\ asked \in Searches /\ kept # asked
        /\ asked <= asked
    <3>1. pc["request"] \in Searching
      BY <2>1
    <3>2. answers[asked] = <<>> /\ kept # asked
      BY <1>0, <2>1 DEF Asked
    <3>3. asked \in Searches /\ asked \in Nat
      BY <1>0, <3>1, SearchNumbers
    <3> QED BY <3>2, <3>3
  <2>4. TwiceByAlarm' /\ OwnErrors'
    <3> DEFINE a == Answer("repeat", "searching", NoSearch)
    <3>1. a.error \in ErrorsOf[a.by]
      BY DEF Answer, ErrorsOf
    <3>2. \A i \in 1..Len(answers[asked]) : answers[asked][i].by = "alarm"
      BY <2>3
    <3> HIDE DEF a
    <3> QED BY <1>0, <2>1, <2>3, <3>1, <3>2, ToldKeepsAnswers DEF a
  <2>5. Asked'
    BY <1>0, <2>1, <2>2, <2>3 DEF Asked, Told
  <2>6. Reported' <=> Reported
    BY <2>1, <2>2, ThreadNames DEF Reported
  <2>7. kept # NoSearch => answers'[kept] = answers[kept]
    BY <1>0, <2>1, <2>3 DEF Told
  <2>8. Unreported' /\ ErrorIsFresh'
    BY <1>0, <2>1, <2>2, <2>6, <2>7, ThreadNames DEF Unreported, ErrorIsFresh
  <2> QED BY <2>4, <2>5, <2>8 DEF Answered
<1>3. CASE InstallHandler
  <2>1. CASE Goto("request", "search command")
    <3>1. pc'["request"] = "search command"
          /\ \A u \in Threads \ {"request"} : pc'[u] = pc[u]
      BY <1>0, <2>1, GotoMoves
    <3>2. /\ pc["request"] = "look" /\ kept = NoSearch
          /\ UNCHANGED <<kept, keptError, answers, asked>>
      BY <1>3 DEF InstallHandler, At, search, calls
    <3>3. Reported => Reported'
      BY <3>1, <3>2, ThreadNames DEF Reported
    <3> QED BY <3>1, <3>2, <3>3, QuietKeepsAnswers
  <2>2. CASE Goto("request", "idle")
    <3>1. pc["request"] = "look" /\ UNCHANGED <<kept, keptError, answers, asked>>
      BY <1>3 DEF InstallHandler, At, search, calls
    <3> QED BY <1>0, <2>2, <3>1, QuietMoveKeepsAnswered
  <2> QED BY <1>3, <2>1, <2>2 DEF InstallHandler
<1>4. CASE SendSearch
  <2>1. \E l \in {"refused", "search wait"} : Goto("request", l)
    BY <1>4 DEF SendSearch, Exchange
  <2> QED BY <1>0, <1>4, <2>1, QuietMoveKeepsAnswered
          DEF SendSearch, At, search, calls
<1>5. CASE SearchReturns
  BY <1>0, <1>5, QuietMoveKeepsAnswered DEF SearchReturns, At, search, calls
<1>6. CASE KeepBegun \/ KeepRefused
  <2>1. /\ kept' = asked /\ keptError' = "success" /\ UNCHANGED <<answers, asked>>
        /\ \E l \in {"set watch", "fail flag"} : Goto("request", l)
        /\ pc["request"] \in {"begun", "refused"}
    BY <1>6 DEF KeepBegun, KeepRefused, At, calls
  <2>2. /\ pc'["request"] \in {"set watch", "fail flag"}
        /\ \A u \in Threads \ {"request"} : pc'[u] = pc[u]
    BY <1>0, <2>1, GotoMoves
  <2>3. answers[asked] = <<>> /\ asked \in Searches /\ asked <= asked
        /\ asked # NoSearch
    <3>1. asked \in Searches /\ answers[asked] = <<>>
      BY <1>0, <2>1 DEF Asked
    <3>2. asked \in Nat /\ asked # NoSearch
      BY <3>1, SearchNumbers
    <3> QED BY <3>1, <3>2
  <2>4. Asked'
    BY <1>0, <2>1, <2>2, <2>3 DEF Asked
  <2>5. Unreported'
    <3>1. \A i \in 1..Len(answers'[kept']) : answers'[kept'][i].by = "alarm"
      <4>1. answers'[kept'] = <<>>
        BY <2>1, <2>3
      <4>2. 1..Len(<<>>) = {}
        OBVIOUS
      <4> QED BY <4>1, <4>2
    <3> QED BY <3>1 DEF Unreported
  <2>6. ErrorIsFresh'
    BY <2>1 DEF ErrorIsFresh
  <2>7. TwiceByAlarm' /\ OwnErrors'
    BY <1>0, <2>1 DEF TwiceByAlarm, OwnErrors
  <2> QED BY <2>4, <2>5, <2>6, <2>7 DEF Answered
<1>7. CASE ReportRefused
  <2>1. /\ Report("refusal", "refused", NoSearch) /\ UNCHANGED <<kept, asked>>
        /\ Goto("request", "fail end") /\ pc["request"] = "fail report"
    BY <1>7 DEF ReportRefused, At, calls
  <2>2. pc'["request"] = "fail end"
    BY <1>0, <2>1, GotoMoves
  <2>3. "refused" \in ErrorsOf["refusal"] /\ "refusal" \in Makers
        /\ "refused" \in Errors
    BY DEF ErrorsOf, Makers, Errors
  <2>4. pc["request"] \in HoldsSearch
    BY <2>1 DEF HoldsSearch
  <2>5. Reported'
    BY <2>2 DEF Reported
  <2> QED BY <1>0, <2>1, <2>2, <2>3, <2>4, <2>5, ReportKeepsAnswered
<1>8. CASE SetWatchFunction
  <2>1. /\ pc["request"] = "set watch" /\ Goto("request", "idle")
        /\ UNCHANGED <<kept, keptError, answers, asked>>
    BY <1>8 DEF SetWatchFunction, At, search, calls
  <2> QED BY <1>0, <2>1, QuietMoveKeepsAnswered
<1> QED BY <1>1, <1>2, <1>3, <1>4, <1>5, <1>6, <1>7, <1>8, EndKeepsAnswered,
        <1>0 DEF SearchStep

LEMMA CommandKeepsAnswered ==
  ASSUME Places, Holders, Values, Answered, NEW t \in Senders,
         AskCommand(t) \/ CommandStep(t)
  PROVE  Answered'
<1> USE DEF Searching, Beginning, Failing, TimingOut
<1>0. t \in Threads /\ t \in Hosts
  BY ThreadNames
<1>1. CASE Interrupt(t)
  <2>1. /\ Report("pause", "interrupted", NoSearch) /\ UNCHANGED <<kept, asked>>
        /\ Goto(t, "interrupt flag") /\ pc[t] = "interrupt"
    BY <1>1 DEF Interrupt, At, calls
  <2>2. pc'[t] = "interrupt flag" /\ \A u \in Threads \ {t} : pc'[u] = pc[u]
    BY <1>0, <2>1, GotoMoves
  <2>3. "interrupted" \in ErrorsOf["pause"] /\ "pause" \in Makers
        /\ "interrupted" \in Errors
    BY DEF ErrorsOf, Makers, Errors
  <2>4. pc[t] \in HoldsSearch
    BY <2>1 DEF HoldsSearch, Pausing
  <2>5. Reported'
    BY <2>2 DEF Reported
  <2>6. pc["request"] \in HoldsSearch => t = "request"
    BY <1>0, <2>4, ThreadNames DEF Holders
  <2>7. /\ pc'["request"] \notin {"look"} \union Beginning
        /\ pc'["request"] \in Searching => pc["request"] \in Searching
    BY <2>2, <2>6, ThreadNames DEF HoldsSearch
  <2> QED BY <1>0, <2>1, <2>3, <2>4, <2>5, <2>7, ReportKeepsAnswered
<1>2. CASE EndSearch(t, "interrupt end", "resume")
  BY <1>0, <1>2, EndKeepsAnswered
<1>3. ASSUME AskCommand(t) \/ SendStop(t) \/ StopReturns(t) \/ LockWatched(t)
             \/ Resume(t) \/ SendOther(t) \/ OtherReturns(t)
      PROVE  Answered'
  <2>1. /\ pc[t] \in {"idle", "stop", "stop wait", "watch", "resume", "send",
                      "send wait"}
        /\ UNCHANGED <<kept, keptError, answers, asked>>
    BY <1>3 DEF AskCommand, SendStop, StopReturns, LockWatched, Resume, SendOther,
                OtherReturns, At, search, calls
  <2>2. \E l \in {"stop", "send", "watch", "stop wait", "interrupt", "resume",
                  "idle", "send wait"} : Goto(t, l)
    BY <1>3 DEF AskCommand, SendStop, StopReturns, LockWatched, Resume, SendOther,
                OtherReturns, Exchange
  <2> QED BY <1>0, <2>1, <2>2, QuietMoveKeepsAnswered
<1> QED BY <1>1, <1>2, <1>3 DEF CommandStep

LEMMA ListKeepsAnswered ==
  ASSUME Places, Holders, Values, Answered, ReadList \/ ListStep
  PROVE  Answered'
<1> USE DEF Searching, Beginning, Failing, TimingOut
<1>0. "reader" \in Threads /\ "reader" \in Hosts
  BY ThreadNames
<1>1. CASE ReportList
  <2> DEFINE error == IF kept # NoSearch /\ line.list = NoSearch THEN "invalid"
                                                                ELSE keptError
  <2>1. /\ Report("list", error, line.list) /\ UNCHANGED <<kept, asked>>
        /\ Goto("reader", "deal end") /\ pc["reader"] = "deal report"
    BY <1>1 DEF ReportList, At, calls
  <2>2. pc'["reader"] = "deal end" /\ \A u \in Threads \ {"reader"} : pc'[u] = pc[u]
    BY <1>0, <2>1, GotoMoves
  <2>3. error \in Errors /\ "list" \in Makers
        /\ line.list \in Searches \union {NoSearch}
    BY DEF Values, Errors, Makers
  <2>4. pc["reader"] \in HoldsSearch
    BY <2>1 DEF HoldsSearch, Dealing
  <2>5. Reported'
    BY <2>2 DEF Reported
  <2>6. pc["request"] \notin HoldsSearch
    BY <1>0, <2>4, ThreadNames DEF Holders
  <2>7. /\ pc'["request"] \notin {"look"} \union Beginning
        /\ pc'["request"] \in Searching => pc["request"] \in Searching
    BY <2>2, <2>6, ThreadNames DEF HoldsSearch
  <2>8. kept # NoSearch => error \in ErrorsOf["list"] \/ pc["alarm"] # "idle"
    <3>1. ~Reported
      BY <1>0, <2>1, <2>4, HolderFindsUnreported
    <3>2. kept # NoSearch => keptError = "success" \/ pc["alarm"] # "idle"
      BY <3>1 DEF Answered, ErrorIsFresh
    <3>3. ErrorsOf["list"] = {"success", "invalid"}
      BY DEF ErrorsOf
    <3> QED BY <3>2, <3>3
  <2> HIDE DEF error
  <2>9. pc["reader"] \notin {"fail end", "interrupt flag", "interrupt end",
                             "deal end"}
    BY <2>1
  <2> QED BY <1>0, <2>1, <2>3, <2>4, <2>5, <2>7, <2>8, <2>9, ReportKeepsAnswered
<1>2. CASE EndSearch("reader", "deal end", "idle")
  BY <1>0, <1>2, EndKeepsAnswered
<1>3. CASE ReadList \/ DispatchList \/ ListAlarm \/ LockDeal
  <2>1. /\ pc["reader"] \in {"idle", "line", "list alarm", "deal"}
        /\ UNCHANGED <<kept, keptError, answers, asked>>
    BY <1>3 DEF ReadList, DispatchList, ListAlarm, LockDeal, At, search, calls
  <2>2. \E l \in {"line", "idle", "list flag", "deal", "deal flag"} :
          Goto("reader", l)
    BY <1>3 DEF ReadList, DispatchList, ListAlarm, LockDeal
  <2> QED BY <1>0, <2>1, <2>2, QuietMoveKeepsAnswered
<1> QED BY <1>1, <1>2, <1>3 DEF ListStep

LEMMA HandlerKeepsAnswered ==
  ASSUME Places, Holders, Values, Answered, Expire \/ HandlerStep
  PROVE  Answered'
<1> USE DEF TimingOut
<1>0. /\ "alarm" \in Threads
      /\ kept \in Searches \union {NoSearch}
      /\ Asked /\ Unreported /\ ErrorIsFresh /\ TwiceByAlarm /\ OwnErrors
  BY ThreadNames DEF Values, Answered
<1>1. CASE Expire
  <2>1. /\ pc["alarm"] = "idle" /\ Goto("alarm", "timeout")
        /\ UNCHANGED <<kept, keptError, answers, asked>>
    BY <1>1 DEF Expire, search, calls
  <2>2. "timeout" \notin Searching
    BY DEF Searching, Beginning, Failing
  <2> QED BY <1>0, <2>1, <2>2, QuietMoveKeepsAnswered
<1>2. ASSUME PerformTimeOut \/ ReportTimeout
      PROVE  /\ \A u \in Threads \ {"alarm"} : pc'[u] = pc[u]
             /\ Reported' <=> Reported
             /\ UNCHANGED <<kept, asked>>
             /\ pc'["alarm"] \in TimingOut
                \/ (pc["alarm"] \notin TimingOut /\ keptError' = keptError)
  <2>1. /\ \E l \in {"timeout report", "timeout flag"} : Goto("alarm", l)
           \/ (Goto("alarm", "idle") /\ pc["alarm"] = "timeout"
               /\ keptError' = keptError)
        /\ UNCHANGED <<kept, asked>>
    BY <1>2 DEF PerformTimeOut, ReportTimeout, At, calls
  <2>2. \A u \in Threads \ {"alarm"} : pc'[u] = pc[u]
    BY <1>0, <2>1, GotoMoves
  <2>3. Reported' <=> Reported
    BY <2>2, ThreadNames DEF Reported
  <2>4. pc'["alarm"] \in TimingOut
        \/ (pc["alarm"] \notin TimingOut /\ keptError' = keptError)
    BY <1>0, <2>1, GotoMoves
  <2> QED BY <2>1, <2>2, <2>3, <2>4
<1>3. CASE PerformTimeOut
  <2>1. answers' = answers
    BY <1>3 DEF PerformTimeOut
  <2>2. Asked'
    BY <1>0, <1>2, <1>3, <2>1, ThreadNames DEF Asked
  <2>3. Unreported' /\ ErrorIsFresh'
    BY <1>0, <1>2, <1>3, <2>1 DEF Unreported, ErrorIsFresh
  <2>4. TwiceByAlarm' /\ OwnErrors'
    BY <1>0, <2>1 DEF TwiceByAlarm, OwnErrors
  <2> QED BY <2>2, <2>3, <2>4 DEF Answered
<1>4. CASE ReportTimeout
  <2>1. /\ Report("alarm", keptError, NoSearch) /\ keptError' = keptError
        /\ pc["alarm"] = "timeout report"
    BY <1>4 DEF ReportTimeout, At
  <2>2. ErrorIsFresh'
    BY <1>0, <1>2, <1>4, <2>1 DEF ErrorIsFresh
  <2>3. CASE kept = NoSearch /\ answers' = answers
    <3>1. Asked' /\ Unreported' /\ TwiceByAlarm' /\ OwnErrors'
      BY <1>0, <1>2, <1>4, <2>3, ThreadNames
         DEF Asked, Unreported, TwiceByAlarm, OwnErrors
    <3> QED BY <2>2, <3>1 DEF Answered
  <2> DEFINE a == Answer("alarm", keptError, NoSearch)
  <2>4. CASE kept \in Searches /\ Told(kept, a)
    <3>1. a.by = "alarm" /\ a.beside
      BY <2>1 DEF Answer
    <3> HIDE DEF a
    <3>2. TwiceByAlarm' /\ OwnErrors'
      BY <1>0, <2>4, <3>1, ToldKeepsAnswers
    <3>3. Asked'
      <4>1. pc'["request"] = pc["request"] /\ UNCHANGED <<kept, asked>>
        BY <1>2, <1>4, ThreadNames
      <4>2. \A s \in Searches : answers'[s] # <<>> => s <= asked
        BY <1>0, <2>4 DEF Asked, Told
      <4>3. pc["request"] \in {"look"} \union Beginning =>
              asked \in Searches \ {kept} /\ answers[asked] = <<>>
        BY <1>0 DEF Asked, Values, Searching
      <4>4. pc["request"] \in {"look"} \union Beginning => answers'[asked] = <<>>
        BY <2>4, <4>3 DEF Told
      <4> QED BY <1>0, <4>1, <4>2, <4>4 DEF Asked
    <3>4. Unreported'
      <4>1. CASE Reported
        BY <1>2, <1>4, <4>1 DEF Unreported
      <4>2. CASE \A i \in 1..Len(answers[kept]) : answers[kept][i].by = "alarm"
        <5>1. answers[kept] \in Seq(Answers)
          BY <2>4 DEF Values, Records
        <5>2. \A i \in 1..Len(answers[kept]) + 1 :
                i \in 1..Len(answers[kept]) \/ i = Len(answers[kept]) + 1
          BY <5>1
        <5>3. \A i \in 1..Len(answers'[kept]) : answers'[kept][i].by = "alarm"
          BY <2>4, <3>1, <4>2, <5>2 DEF Told
        <5> QED BY <1>2, <1>4, <5>3 DEF Unreported
      <4> QED BY <1>0, <2>4, <4>1, <4>2, SearchNumbers DEF Unreported
    <3> QED BY <2>2, <3>2, <3>3, <3>4 DEF Answered
  <2>5. "alarm" \in Makers /\ keptError \in Errors
    BY DEF Makers, Values
  <2> HIDE DEF a
  <2> QED BY <2>1, <2>3, <2>4, <2>5, ReportTells DEF a
<1>5. CASE EndSearch("alarm", "timeout end", "idle")
  BY <1>0, <1>5, EndKeepsAnswered
<1> QED BY <1>1, <1>3, <1>4, <1>5 DEF HandlerStep

LEMMA StepKeepsAnswered ==
  Places /\ Holders /\ Values /\ Answered /\ [Next]_vars => Answered'
<1> SUFFICES ASSUME Places, Holders, Values, Answered, [Next]_vars
             PROVE  Answered'
  OBVIOUS
<1>1. CASE UNCHANGED vars \/ \E t \in Threads : LockFlag(t)
  <2>1. UNCHANGED <<pc, kept, keptError, answers, asked>>
    BY <1>1 DEF vars, LockFlag, search, calls
  <2> QED BY <2>1, QuietKeepsAnswers DEF Reported
<1>2. ASSUME NEW t \in Threads, ClearFlag(t) PROVE Answered'
  <2>1. /\ pc[t] \in FlagLabels /\ Goto(t, AfterFlag(pc[t]))
        /\ UNCHANGED <<kept, keptError, answers, asked>>
    BY <1>2 DEF ClearFlag, Holders, search, calls
  <2>2. pc'[t] = AfterFlag(pc[t]) /\ \A u \in Threads \ {t} : pc'[u] = pc[u]
    BY <2>1, GotoMoves
  <2>3. /\ pc'["request"] \in Searching => pc["request"] \in Searching
        /\ pc'["request"] \notin {"look"} \union Beginning
           \/ pc'["request"] = pc["request"]
        /\ pc["alarm"] \in TimingOut => pc'["alarm"] \in TimingOut
    BY <2>1, <2>2, AfterFlagIs, ThreadNames
       DEF FlagLabels, Searching, Beginning, Failing, TimingOut
  <2>4. Reported => Reported'
    BY <2>1, <2>2, AfterFlagIs, ThreadNames DEF FlagLabels, Reported
  <2> QED BY <2>1, <2>3, <2>4, QuietKeepsAnswers
<1> QED BY <1>1, <1>2, SearchKeepsAnswered, CommandKeepsAnswered,
           ListKeepsAnswered, HandlerKeepsAnswered DEF Next, Ask, FlagStep

-----------------------------------------------------------------------------
(* The alarm, the flag and the kept search. *)

(* No alarm goes off while a search is being begun, and no handler is at   *)
(* work then, unless a lapse says so.                                      *)
HandlerIsOff ==
  /\ pc["request"] \in Searching => ~armed
  /\ "late handler" \notin lapses /\ pc["request"] \in Beginning \union Failing
       => pc["alarm"] = "idle"

(* A command that takes the flag down and the alarm off has ended the      *)
(* search, and no other has begun.                                         *)
Paused ==
  lapses = {} /\ (\E t \in Senders : pc[t] = "resume")
    => kept = NoSearch /\ pc["request"] \notin {"search wait", "refused", "begun"}

(* From the command of a search until it is kept only a list takes the     *)
(* flag down, and that list then waits for the mutex.                      *)
StillFlagged ==
  lapses = {} /\ pc["request"] \in {"search wait", "begun"}
    => pauseFlag \/ pc["reader"] \in {"list alarm", "deal"}

(* Some thread is on its way to end the search that is kept.               *)
AtIt ==
  \/ pc["request"] \in Failing
  \/ pc["reader"] \in Listing
  \/ \E t \in Senders : pc[t] \in Pausing

Flagged ==
  kept # NoSearch /\ lapses = {} => pauseFlag \/ AtIt \/ pc["alarm"] \in TimingOut

Armed ==
  kept # NoSearch /\ lapses = {} => armed \/ AtIt \/ pc["alarm"] # "idle"

(* Before a search is let go its flag is down and its alarm off.           *)
Down ==
  /\ pc["request"] \in {"fail report", "fail end"} => ~pauseFlag
  /\ \A t \in Senders : pc[t] = "interrupt end" => ~pauseFlag
  /\ pc["reader"] \in {"deal report", "deal end"} => ~pauseFlag
  /\ pc["reader"] = "deal end" => ~armed
  /\ lapses = {} /\ pc["alarm"] # "idle" => ~armed
  /\ lapses = {} /\ pc["alarm"] = "timeout end" => ~pauseFlag

(* And so neither outlives it.                                             *)
FlagIsOwed ==
  lapses = {} /\ pauseFlag =>
    \/ kept # NoSearch
    \/ pc["request"] \in {"search wait", "refused", "begun", "fail flag"}

AlarmIsOwed ==
  lapses = {} /\ armed => kept # NoSearch \/ \E t \in Senders : pc[t] = "resume"

Guarded == /\ HandlerIsOff /\ Paused /\ StillFlagged /\ Flagged /\ Armed /\ Down
           /\ FlagIsOwed /\ AlarmIsOwed

(* Who is in a section of a mutex is there alone.                          *)
LEMMA Alone ==
  ASSUME Holders
  PROVE  /\ \A t, u \in Hosts : pc[t] \in HoldsSearch /\ pc[u] \in HoldsSearch => t = u
         /\ \A t, u \in Senders : pc[t] \in Sending /\ pc[u] \in Sending => t = u
BY DEF Holders

LEMMA SearchKeepsGuarded ==
  ASSUME Places, Holders, Values, Asked, Guarded, AskSearch \/ SearchStep
  PROVE  Guarded'
<1> USE DEF Guarded, HandlerIsOff, Paused, StillFlagged, Flagged, Armed, Down,
            FlagIsOwed, AlarmIsOwed, AtIt, Searching, Beginning, Failing,
            Pausing, Listing, Dealing, TimingOut
<1>0. "request" \in Threads /\ "request" \in Hosts
  BY ThreadNames
<1>1. ASSUME NEW l, Goto("request", l)
      PROVE  /\ pc'["request"] = l /\ pc'["background"] = pc["background"]
             /\ pc'["reader"] = pc["reader"] /\ pc'["alarm"] = pc["alarm"]
  BY <1>0, <1>1, GotoMoves, ThreadNames
<1>2. pc["request"] \in Searching =>
        /\ pc["reader"] \notin Dealing
        /\ \A t \in Senders : pc[t] \notin Pausing
  <2>1. pc["request"] \in Searching =>
          \A u \in Hosts \ {"request"} : pc[u] \notin HoldsSearch
    BY <1>0, Alone DEF HoldsSearch
  <2> QED BY <2>1, ThreadNames DEF HoldsSearch
<1>3. CASE AskSearch
  <2>1. /\ pc["request"] = "idle" /\ armed' = FALSE /\ UNCHANGED <<kept, pauseFlag>>
        /\ lapses' = {} => lapses = {} /\ kept = NoSearch
        /\ "late handler" \notin lapses' => "late handler" \notin lapses
        /\ Goto("request", "look")
    BY <1>3 DEF AskSearch, At, search
  <2>2. /\ pc'["request"] = "look" /\ pc'["background"] = pc["background"]
        /\ pc'["reader"] = pc["reader"] /\ pc'["alarm"] = pc["alarm"]
    BY <1>1, <2>1, ThreadNames
  <2> QED BY <2>1, <2>2, ThreadNames
<1>4. CASE InstallHandler
  <2>1. /\ pc["request"] = "look" /\ UNCHANGED <<kept, pauseFlag, armed>>
        /\ lapses' = {} => lapses = {}
        /\ "late handler" \notin lapses' => "late handler" \notin lapses
        /\ \/ /\ Goto("request", "search command")
              /\ "late handler" \notin lapses' => pc["alarm"] = "idle"
           \/ /\ Goto("request", "idle") /\ lapses' # {}
    BY <1>4 DEF InstallHandler, At, search, guard
  <2>2. /\ \/ /\ pc'["request"] = "search command"
              /\ "late handler" \notin lapses' => pc["alarm"] = "idle"
           \/ /\ pc'["request"] = "idle" /\ lapses' # {}
        /\ pc'["background"] = pc["background"] /\ pc'["reader"] = pc["reader"]
        /\ pc'["alarm"] = pc["alarm"]
    BY <1>1, <2>1
  <2> QED BY <2>1, <2>2, ThreadNames
<1>5. CASE SendSearch
  <2>1. /\ pc["request"] = "search command" /\ pauseFlag' = TRUE
        /\ UNCHANGED <<kept, armed, lapses>>
        /\ commandMutex = Free
        /\ \E l \in {"refused", "search wait"} : Goto("request", l)
    BY <1>5 DEF SendSearch, Exchange, At, search
  <2>2. \A t \in Senders : pc[t] # "resume"
    BY <2>1, ThreadNames DEF Holders, Sending, Free
  <2>3. pc["alarm"] = "idle" \/ lapses # {}
    BY <2>1
  <2>4. /\ pc'["request"] \in {"refused", "search wait"}
        /\ pc'["background"] = pc["background"] /\ pc'["reader"] = pc["reader"]
        /\ pc'["alarm"] = pc["alarm"]
    BY <1>1, <2>1
  <2> QED BY <1>2, <2>1, <2>2, <2>3, <2>4, ThreadNames
<1>6. CASE SearchReturns
  <2>1. /\ pc["request"] = "search wait" /\ UNCHANGED <<kept, armed, pauseFlag, lapses>>
        /\ \E l \in {"refused", "begun"} : Goto("request", l)
    BY <1>6 DEF SearchReturns, At, search, guard
  <2>2. /\ pc'["request"] \in {"refused", "begun"}
        /\ pc'["background"] = pc["background"] /\ pc'["reader"] = pc["reader"]
        /\ pc'["alarm"] = pc["alarm"]
    BY <1>1, <2>1
  <2> QED BY <2>1, <2>2, ThreadNames
<1>7. CASE KeepBegun
  <2>1. /\ pc["request"] = "begun" /\ kept' = asked /\ armed' = TRUE
        /\ UNCHANGED <<pauseFlag, lapses>> /\ Goto("request", "set watch")
    BY <1>7 DEF KeepBegun, At
  <2>2. asked # NoSearch
    BY <2>1 DEF Asked
  <2>3. /\ pc'["request"] = "set watch"
        /\ pc'["background"] = pc["background"] /\ pc'["reader"] = pc["reader"]
        /\ pc'["alarm"] = pc["alarm"]
    BY <1>1, <2>1
  <2>4. (pauseFlag' <=> pauseFlag) /\ armed'
    BY <2>1
  <2>5. kept' = asked /\ lapses' = lapses
    BY <2>1
  <2>6. pc["request"] = "begun"
    BY <2>1
  <2>7. HandlerIsOff' /\ Paused' /\ StillFlagged'
    BY <1>2, <2>2, <2>3, <2>4, <2>5, <2>6, ThreadNames
  <2>8. Flagged' /\ Armed'
    BY <1>2, <2>2, <2>3, <2>4, <2>5, <2>6, ThreadNames
  <2>9. Down'
    BY <1>2, <2>2, <2>3, <2>4, <2>5, <2>6, ThreadNames
  <2>10. FlagIsOwed' /\ AlarmIsOwed'
    BY <1>2, <2>2, <2>3, <2>4, <2>5, <2>6, ThreadNames
  <2> QED BY <2>7, <2>8, <2>9, <2>10
<1>8. CASE KeepRefused
  <2>1. /\ pc["request"] = "refused" /\ kept' = asked
        /\ UNCHANGED <<pauseFlag, armed, lapses>> /\ Goto("request", "fail flag")
    BY <1>8 DEF KeepRefused, At, guard
  <2>2. asked # NoSearch
    BY <2>1 DEF Asked
  <2>3. /\ pc'["request"] = "fail flag"
        /\ pc'["background"] = pc["background"] /\ pc'["reader"] = pc["reader"]
        /\ pc'["alarm"] = pc["alarm"]
    BY <1>1, <2>1
  <2>4. (pauseFlag' <=> pauseFlag) /\ (armed' <=> armed)
    BY <2>1
  <2>5. kept' = asked /\ lapses' = lapses
    BY <2>1
  <2>6. pc["request"] = "refused"
    BY <2>1
  <2>7. HandlerIsOff' /\ Paused' /\ StillFlagged'
    BY <1>2, <2>2, <2>3, <2>4, <2>5, <2>6, ThreadNames
  <2>8. Flagged' /\ Armed'
    BY <1>2, <2>2, <2>3, <2>4, <2>5, <2>6, ThreadNames
  <2>9. Down'
    BY <1>2, <2>2, <2>3, <2>4, <2>5, <2>6, ThreadNames
  <2>10. FlagIsOwed' /\ AlarmIsOwed'
    BY <1>2, <2>2, <2>3, <2>4, <2>5, <2>6, ThreadNames
  <2> QED BY <2>7, <2>8, <2>9, <2>10
<1>9. CASE EndSearch("request", "fail end", "idle")
  <2>1. /\ pc["request"] = "fail end" /\ kept' = NoSearch
        /\ UNCHANGED <<pauseFlag, armed, lapses>> /\ Goto("request", "idle")
    BY <1>9 DEF EndSearch, At, guard
  <2>2. /\ pc'["request"] = "idle"
        /\ pc'["background"] = pc["background"] /\ pc'["reader"] = pc["reader"]
        /\ pc'["alarm"] = pc["alarm"]
    BY <1>1, <2>1
  <2>3. (pauseFlag' <=> pauseFlag) /\ (armed' <=> armed)
    BY <2>1
  <2>4. kept' = NoSearch /\ lapses' = lapses
    BY <2>1
  <2>5. pc["request"] = "fail end"
    BY <2>1
  <2>6. HandlerIsOff' /\ Paused' /\ StillFlagged'
    BY <1>2, <2>2, <2>3, <2>4, <2>5, ThreadNames
  <2>7. Flagged' /\ Armed'
    BY <1>2, <2>2, <2>3, <2>4, <2>5, ThreadNames
  <2>8. Down'
    BY <1>2, <2>2, <2>3, <2>4, <2>5, ThreadNames
  <2>9. FlagIsOwed' /\ AlarmIsOwed'
    BY <1>2, <2>2, <2>3, <2>4, <2>5, ThreadNames
  <2> QED BY <2>6, <2>7, <2>8, <2>9
<1>10. CASE RefuseRepeat \/ ReportRefused \/ SetWatchFunction
  <2>1. /\ \/ pc["request"] = "look" /\ Goto("request", "idle")
           \/ pc["request"] = "fail report" /\ Goto("request", "fail end")
           \/ pc["request"] = "set watch" /\ Goto("request", "idle")
        /\ UNCHANGED <<kept, pauseFlag, armed, lapses>>
    BY <1>10 DEF RefuseRepeat, ReportRefused, SetWatchFunction, At, search, guard
  <2>2. /\ \/ pc["request"] = "look" /\ pc'["request"] = "idle"
           \/ pc["request"] = "fail report" /\ pc'["request"] = "fail end"
           \/ pc["request"] = "set watch" /\ pc'["request"] = "idle"
        /\ pc'["background"] = pc["background"] /\ pc'["reader"] = pc["reader"]
        /\ pc'["alarm"] = pc["alarm"]
    BY <1>1, <2>1
  <2> QED BY <2>1, <2>2, ThreadNames
<1> QED BY <1>3, <1>4, <1>5, <1>6, <1>7, <1>8, <1>9, <1>10 DEF SearchStep

LEMMA CommandKeepsGuarded ==
  ASSUME Places, Holders, Values, Guarded, NEW t \in Senders,
         AskCommand(t) \/ CommandStep(t)
  PROVE  Guarded'
<1> USE DEF Guarded, HandlerIsOff, Paused, StillFlagged, Flagged, Armed, Down,
            FlagIsOwed, AlarmIsOwed, AtIt, Searching, Beginning, Failing,
            Pausing, Listing, Dealing, TimingOut
<1>0. /\ t \in Threads /\ t \in Hosts /\ (t = "request" \/ t = "background")
      /\ armed \in BOOLEAN /\ pauseFlag \in BOOLEAN
  BY ThreadNames DEF Values
<1>1. ASSUME NEW l, Goto(t, l)
      PROVE  pc'[t] = l /\ \A u \in Threads \ {t} : pc'[u] = pc[u]
  BY <1>0, <1>1, GotoMoves
<1>2. pc[t] \in Pausing => /\ pc["request"] \notin Searching
                           /\ pc["reader"] \notin Dealing
                           /\ \A u \in Senders \ {t} : pc[u] \notin Pausing
  <2>1. pc[t] \in Pausing => \A u \in Hosts \ {t} : pc[u] \notin HoldsSearch
    BY <1>0, Alone DEF HoldsSearch
  <2> QED BY <2>1, ThreadNames DEF HoldsSearch
<1>3. CASE AskCommand(t) \/ SendStop(t) \/ StopReturns(t) \/ SendOther(t)
           \/ OtherReturns(t)
  <2>1. /\ pc[t] \in {"idle", "stop", "stop wait", "send", "send wait"}
        /\ \E l \in {"stop", "send", "watch", "stop wait", "idle", "send wait"} :
             Goto(t, l)
        /\ UNCHANGED <<kept, pauseFlag, armed, lapses>>
    BY <1>3 DEF AskCommand, SendStop, StopReturns, SendOther, OtherReturns,
                Exchange, At, search, guard
  <2>2. /\ pc'[t] \in {"stop", "send", "watch", "stop wait", "idle", "send wait"}
        /\ \A u \in Threads \ {t} : pc'[u] = pc[u]
    BY <1>1, <2>1
  <2>3. \/ /\ t = "request" /\ pc'["background"] = pc["background"]
           /\ pc'["reader"] = pc["reader"] /\ pc'["alarm"] = pc["alarm"]
        \/ /\ t = "background" /\ pc'["request"] = pc["request"]
           /\ pc'["reader"] = pc["reader"] /\ pc'["alarm"] = pc["alarm"]
    BY <1>0, <2>2, ThreadNames
  <2>4. HandlerIsOff' /\ Paused' /\ StillFlagged'
    BY <1>0, <2>1, <2>2, <2>3, ThreadNames
  <2>5. Flagged' /\ Armed'
    BY <1>0, <2>1, <2>2, <2>3, ThreadNames
  <2>6. Down'
    BY <1>0, <2>1, <2>2, <2>3, ThreadNames
  <2>7. FlagIsOwed' /\ AlarmIsOwed'
    BY <1>0, <2>1, <2>2, <2>3, ThreadNames
  <2> QED BY <2>4, <2>5, <2>6, <2>7
<1>4. CASE LockWatched(t)
  <2>1. /\ pc[t] = "watch" /\ UNCHANGED <<kept, pauseFlag, armed>>
        /\ lapses' = {} => lapses = {}
        /\ "late handler" \notin lapses' => "late handler" \notin lapses
        /\ Goto(t, "interrupt") \/ (Goto(t, "resume") /\ lapses' # {})
    BY <1>4 DEF LockWatched, At, search, guard
  <2>2. /\ pc'[t] = "interrupt" \/ (pc'[t] = "resume" /\ lapses' # {})
        /\ \A u \in Threads \ {t} : pc'[u] = pc[u]
    BY <1>1, <2>1
  <2>3. \/ /\ t = "request" /\ pc'["background"] = pc["background"]
           /\ pc'["reader"] = pc["reader"] /\ pc'["alarm"] = pc["alarm"]
        \/ /\ t = "background" /\ pc'["request"] = pc["request"]
           /\ pc'["reader"] = pc["reader"] /\ pc'["alarm"] = pc["alarm"]
    BY <1>0, <2>2, ThreadNames
  <2> QED BY <1>0, <2>1, <2>2, <2>3, ThreadNames
<1>5. CASE Interrupt(t)
  <2>1. /\ pc[t] = "interrupt" /\ UNCHANGED <<kept, pauseFlag, armed, lapses>>
        /\ Goto(t, "interrupt flag")
    BY <1>5 DEF Interrupt, At, guard
  <2>2. /\ pc'[t] = "interrupt flag"
        /\ \A u \in Threads \ {t} : pc'[u] = pc[u]
    BY <1>1, <2>1
  <2>3. \/ /\ t = "request" /\ pc'["background"] = pc["background"]
           /\ pc'["reader"] = pc["reader"] /\ pc'["alarm"] = pc["alarm"]
        \/ /\ t = "background" /\ pc'["request"] = pc["request"]
           /\ pc'["reader"] = pc["reader"] /\ pc'["alarm"] = pc["alarm"]
    BY <1>0, <2>2, ThreadNames
  <2> QED BY <1>0, <2>1, <2>2, <2>3, ThreadNames
<1>6. CASE EndSearch(t, "interrupt end", "resume")
  <2>1. /\ pc[t] = "interrupt end" /\ kept' = NoSearch
        /\ UNCHANGED <<pauseFlag, armed, lapses>> /\ Goto(t, "resume")
    BY <1>6 DEF EndSearch, At, guard
  <2>2. /\ pc'[t] = "resume"
        /\ \A u \in Threads \ {t} : pc'[u] = pc[u]
    BY <1>1, <2>1
  <2>3. \/ /\ t = "request" /\ pc'["background"] = pc["background"]
           /\ pc'["reader"] = pc["reader"] /\ pc'["alarm"] = pc["alarm"]
        \/ /\ t = "background" /\ pc'["request"] = pc["request"]
           /\ pc'["reader"] = pc["reader"] /\ pc'["alarm"] = pc["alarm"]
    BY <1>0, <2>2, ThreadNames
  <2>4. (pauseFlag' <=> pauseFlag) /\ (armed' <=> armed)
    BY <2>1
  <2>5. kept' = NoSearch /\ lapses' = lapses
    BY <2>1
  <2>6. pc[t] = "interrupt end"
    BY <2>1
  <2>7. HandlerIsOff' /\ Paused' /\ StillFlagged'
    BY <1>0, <1>2, <2>2, <2>3, <2>4, <2>5, <2>6, ThreadNames
  <2>8. Flagged' /\ Armed'
    BY <1>0, <1>2, <2>2, <2>3, <2>4, <2>5, <2>6, ThreadNames
  <2>9. Down'
    BY <1>0, <1>2, <2>2, <2>3, <2>4, <2>5, <2>6, ThreadNames
  <2>10. FlagIsOwed' /\ AlarmIsOwed'
    BY <1>0, <1>2, <2>2, <2>3, <2>4, <2>5, <2>6, ThreadNames
  <2> QED BY <2>7, <2>8, <2>9, <2>10
<1>7. CASE Resume(t)
  <2>1. /\ pc[t] = "resume" /\ pauseFlag' = FALSE /\ armed' = FALSE
        /\ UNCHANGED <<kept, lapses>> /\ Goto(t, "send")
    BY <1>7 DEF Resume, At, search
  <2>2. /\ UNCHANGED <<kept, lapses>> /\ pc'[t] = "send"
        /\ \A u \in Threads \ {t} : pc'[u] = pc[u]
    BY <1>1, <2>1
  <2>3. \/ /\ t = "request" /\ pc'["background"] = pc["background"]
           /\ pc'["reader"] = pc["reader"] /\ pc'["alarm"] = pc["alarm"]
        \/ /\ t = "background" /\ pc'["request"] = pc["request"]
           /\ pc'["reader"] = pc["reader"] /\ pc'["alarm"] = pc["alarm"]
    BY <1>0, <2>2, ThreadNames
  <2> QED BY <1>0, <2>1, <2>2, <2>3, ThreadNames
<1> QED BY <1>3, <1>4, <1>5, <1>6, <1>7 DEF CommandStep

LEMMA ListKeepsGuarded ==
  ASSUME Places, Holders, Values, Guarded, ReadList \/ ListStep
  PROVE  Guarded'
<1> USE DEF Guarded, HandlerIsOff, Paused, StillFlagged, Flagged, Armed, Down,
            FlagIsOwed, AlarmIsOwed, AtIt, Searching, Beginning, Failing,
            Pausing, Listing, Dealing, TimingOut
<1>0. "reader" \in Threads /\ "reader" \in Hosts
  BY ThreadNames
<1>1. ASSUME NEW l, Goto("reader", l)
      PROVE  /\ pc'["reader"] = l /\ pc'["request"] = pc["request"]
             /\ pc'["background"] = pc["background"] /\ pc'["alarm"] = pc["alarm"]
  BY <1>0, <1>1, GotoMoves, ThreadNames
<1>2. pc["reader"] \in Dealing => /\ pc["request"] \notin Searching
                                  /\ \A u \in Senders : pc[u] \notin Pausing
  <2>1. pc["reader"] \in Dealing =>
          \A u \in Hosts \ {"reader"} : pc[u] \notin HoldsSearch
    BY <1>0, Alone DEF HoldsSearch
  <2> QED BY <2>1, ThreadNames DEF HoldsSearch
<1>3. CASE ReadList \/ DispatchList
  <2>1. /\ pc["reader"] \in {"idle", "line"}
        /\ \E l \in {"line", "idle", "list flag"} : Goto("reader", l)
        /\ UNCHANGED <<kept, pauseFlag, armed, lapses>>
    BY <1>3 DEF ReadList, DispatchList, At, search, guard
  <2>2. /\ pc'["reader"] \in {"line", "idle", "list flag"}
        /\ pc'["request"] = pc["request"] /\ pc'["background"] = pc["background"]
        /\ pc'["alarm"] = pc["alarm"]
    BY <1>1, <2>1
  <2> QED BY <2>1, <2>2, ThreadNames
<1>4. CASE ListAlarm
  <2>1. /\ pc["reader"] = "list alarm" /\ armed' = FALSE
        /\ UNCHANGED <<kept, pauseFlag, lapses>> /\ Goto("reader", "deal")
    BY <1>4 DEF ListAlarm, At, search
  <2>2. /\ pc'["reader"] = "deal"
        /\ pc'["request"] = pc["request"] /\ pc'["background"] = pc["background"]
        /\ pc'["alarm"] = pc["alarm"]
    BY <1>1, <2>1
  <2>3. (pauseFlag' <=> pauseFlag) /\ ~armed'
    BY <2>1
  <2>4. kept' = kept /\ lapses' = lapses
    BY <2>1
  <2>5. pc["reader"] = "list alarm"
    BY <2>1
  <2>6. HandlerIsOff' /\ Paused' /\ StillFlagged'
    BY <2>2, <2>3, <2>4, <2>5, ThreadNames
  <2>7. Flagged' /\ Armed'
    BY <2>2, <2>3, <2>4, <2>5, ThreadNames
  <2>8. Down'
    BY <2>2, <2>3, <2>4, <2>5, ThreadNames
  <2>9. FlagIsOwed' /\ AlarmIsOwed'
    BY <2>2, <2>3, <2>4, <2>5, ThreadNames
  <2> QED BY <2>6, <2>7, <2>8, <2>9
<1>5. CASE LockDeal
  <2>1. /\ pc["reader"] = "deal" /\ searchMutex = Free
        /\ UNCHANGED <<kept, pauseFlag, armed, lapses>>
        /\ Goto("reader", "deal flag")
    BY <1>5 DEF LockDeal, At, search, guard
  <2>2. pc["request"] \notin Searching
    BY <2>1, ThreadNames DEF Holders, HoldsSearch, Free
  <2>3. /\ pc'["reader"] = "deal flag"
        /\ pc'["request"] = pc["request"] /\ pc'["background"] = pc["background"]
        /\ pc'["alarm"] = pc["alarm"]
    BY <1>1, <2>1
  <2> QED BY <2>1, <2>2, <2>3, ThreadNames
<1>6. CASE ReportList
  <2>1. /\ pc["reader"] = "deal report" /\ armed' = FALSE
        /\ UNCHANGED <<kept, pauseFlag, lapses>> /\ Goto("reader", "deal end")
    BY <1>6 DEF ReportList, At
  <2>2. /\ pc'["reader"] = "deal end"
        /\ pc'["request"] = pc["request"] /\ pc'["background"] = pc["background"]
        /\ pc'["alarm"] = pc["alarm"]
    BY <1>1, <2>1
  <2>3. (pauseFlag' <=> pauseFlag) /\ ~armed'
    BY <2>1
  <2>4. kept' = kept /\ lapses' = lapses
    BY <2>1
  <2>5. pc["reader"] = "deal report"
    BY <2>1
  <2>6. HandlerIsOff' /\ Paused' /\ StillFlagged'
    BY <2>2, <2>3, <2>4, <2>5, ThreadNames
  <2>7. Flagged' /\ Armed'
    BY <2>2, <2>3, <2>4, <2>5, ThreadNames
  <2>8. Down'
    BY <2>2, <2>3, <2>4, <2>5, ThreadNames
  <2>9. FlagIsOwed' /\ AlarmIsOwed'
    BY <2>2, <2>3, <2>4, <2>5, ThreadNames
  <2> QED BY <2>6, <2>7, <2>8, <2>9
<1>7. CASE EndSearch("reader", "deal end", "idle")
  <2>1. /\ pc["reader"] = "deal end" /\ kept' = NoSearch
        /\ UNCHANGED <<pauseFlag, armed, lapses>> /\ Goto("reader", "idle")
    BY <1>7 DEF EndSearch, At, guard
  <2>2. /\ pc'["reader"] = "idle"
        /\ pc'["request"] = pc["request"] /\ pc'["background"] = pc["background"]
        /\ pc'["alarm"] = pc["alarm"]
    BY <1>1, <2>1
  <2>3. (pauseFlag' <=> pauseFlag) /\ (armed' <=> armed)
    BY <2>1
  <2>4. kept' = NoSearch /\ lapses' = lapses
    BY <2>1
  <2>5. pc["reader"] = "deal end"
    BY <2>1
  <2>6. HandlerIsOff' /\ Paused' /\ StillFlagged'
    BY <1>2, <2>2, <2>3, <2>4, <2>5, ThreadNames
  <2>7. Flagged' /\ Armed'
    BY <1>2, <2>2, <2>3, <2>4, <2>5, ThreadNames
  <2>8. Down'
    BY <1>2, <2>2, <2>3, <2>4, <2>5, ThreadNames
  <2>9. FlagIsOwed' /\ AlarmIsOwed'
    BY <1>2, <2>2, <2>3, <2>4, <2>5, ThreadNames
  <2> QED BY <2>6, <2>7, <2>8, <2>9
<1> QED BY <1>3, <1>4, <1>5, <1>6, <1>7 DEF ListStep

LEMMA HandlerKeepsGuarded ==
  ASSUME Places, Holders, Values, Guarded, Expire \/ HandlerStep
  PROVE  Guarded'
<1> USE DEF Guarded, HandlerIsOff, Paused, StillFlagged, Flagged, Armed, Down,
            FlagIsOwed, AlarmIsOwed, AtIt, Searching, Beginning, Failing,
            Pausing, Listing, Dealing, TimingOut
<1>1. ASSUME NEW l, Goto("alarm", l)
      PROVE  /\ pc'["alarm"] = l /\ pc'["request"] = pc["request"]
             /\ pc'["background"] = pc["background"] /\ pc'["reader"] = pc["reader"]
  BY <1>1, GotoMoves, ThreadNames
<1>2. CASE Expire
  <2>1. /\ pc["alarm"] = "idle" /\ armed /\ armed' = FALSE
        /\ UNCHANGED <<kept, pauseFlag, lapses>> /\ Goto("alarm", "timeout")
    BY <1>2 DEF Expire, search
  <2>2. /\ pc'["alarm"] = "timeout"
        /\ pc'["request"] = pc["request"] /\ pc'["background"] = pc["background"]
        /\ pc'["reader"] = pc["reader"]
    BY <1>1, <2>1
  <2>3. (pauseFlag' <=> pauseFlag) /\ ~armed'
    BY <2>1
  <2>4. kept' = kept /\ lapses' = lapses
    BY <2>1
  <2>5. pc["alarm"] = "idle" /\ armed
    BY <2>1
  <2>6. HandlerIsOff' /\ Paused' /\ StillFlagged'
    BY <2>2, <2>3, <2>4, <2>5, ThreadNames
  <2>7. Flagged' /\ Armed'
    BY <2>2, <2>3, <2>4, <2>5, ThreadNames
  <2>8. Down'
    BY <2>2, <2>3, <2>4, <2>5, ThreadNames
  <2>9. FlagIsOwed' /\ AlarmIsOwed'
    BY <2>2, <2>3, <2>4, <2>5, ThreadNames
  <2> QED BY <2>6, <2>7, <2>8, <2>9
<1>3. CASE PerformTimeOut
  <2>1. /\ pc["alarm"] = "timeout" /\ UNCHANGED <<kept, pauseFlag, armed, lapses>>
        /\ \/ pauseFlag /\ Goto("alarm", "timeout report")
           \/ ~pauseFlag /\ Goto("alarm", "idle")
    BY <1>3 DEF PerformTimeOut, At, guard
  <2>2. /\ \/ pauseFlag /\ pc'["alarm"] = "timeout report"
           \/ ~pauseFlag /\ pc'["alarm"] = "idle"
        /\ pc'["request"] = pc["request"] /\ pc'["background"] = pc["background"]
        /\ pc'["reader"] = pc["reader"]
    BY <1>1, <2>1
  <2> QED BY <2>1, <2>2, ThreadNames
<1>4. CASE ReportTimeout
  <2>1. /\ pc["alarm"] = "timeout report"
        /\ UNCHANGED <<kept, pauseFlag, armed, lapses>>
        /\ Goto("alarm", "timeout flag")
    BY <1>4 DEF ReportTimeout, At, guard
  <2>2. /\ pc'["alarm"] = "timeout flag"
        /\ pc'["request"] = pc["request"] /\ pc'["background"] = pc["background"]
        /\ pc'["reader"] = pc["reader"]
    BY <1>1, <2>1
  <2> QED BY <2>1, <2>2, ThreadNames
<1>5. CASE EndSearch("alarm", "timeout end", "idle")
  <2>1. /\ pc["alarm"] = "timeout end" /\ kept' = NoSearch
        /\ UNCHANGED <<pauseFlag, armed, lapses>> /\ Goto("alarm", "idle")
    BY <1>5 DEF EndSearch, At, guard
  <2>2. /\ pc'["alarm"] = "idle"
        /\ pc'["request"] = pc["request"] /\ pc'["background"] = pc["background"]
        /\ pc'["reader"] = pc["reader"]
    BY <1>1, <2>1
  <2>3. (pauseFlag' <=> pauseFlag) /\ (armed' <=> armed)
    BY <2>1
  <2>4. kept' = NoSearch /\ lapses' = lapses
    BY <2>1
  <2>5. pc["alarm"] = "timeout end"
    BY <2>1
  <2>6. HandlerIsOff' /\ Paused' /\ StillFlagged'
    BY <2>2, <2>3, <2>4, <2>5, ThreadNames
  <2>7. Flagged' /\ Armed'
    BY <2>2, <2>3, <2>4, <2>5, ThreadNames
  <2>8. Down'
    BY <2>2, <2>3, <2>4, <2>5, ThreadNames
  <2>9. FlagIsOwed' /\ AlarmIsOwed'
    BY <2>2, <2>3, <2>4, <2>5, ThreadNames
  <2> QED BY <2>6, <2>7, <2>8, <2>9
<1> QED BY <1>2, <1>3, <1>4, <1>5 DEF HandlerStep

LEMMA FlagKeepsGuarded ==
  ASSUME Places, Holders, Values, Guarded, NEW t \in Threads, FlagStep(t)
  PROVE  Guarded'
<1> USE DEF Guarded, HandlerIsOff, Paused, StillFlagged, Flagged, Armed, Down,
            FlagIsOwed, AlarmIsOwed, AtIt, Searching, Beginning, Failing,
            Pausing, Listing, Dealing, TimingOut
<1>0. armed \in BOOLEAN /\ pauseFlag \in BOOLEAN
  BY DEF Values
<1>1. CASE LockFlag(t)
  BY <1>1 DEF LockFlag, search, guard
<1>2. CASE ClearFlag(t)
  <2>1. /\ pc[t] \in FlagLabels /\ Goto(t, AfterFlag(pc[t])) /\ pauseFlag' = FALSE
        /\ UNCHANGED <<kept, armed, lapses>>
    BY <1>2 DEF ClearFlag, Holders, search
  <2>2. pc'[t] = AfterFlag(pc[t]) /\ \A u \in Threads \ {t} : pc'[u] = pc[u]
    BY <2>1, GotoMoves
  <2>3. pc["request"] \in {"search wait", "begun"} =>
          /\ pc["reader"] \notin Dealing
          /\ \A u \in Senders : pc[u] \notin Pausing
          /\ pc["alarm"] = "idle" \/ lapses # {}
    <3>1. pc["request"] \in Searching =>
            \A u \in Hosts \ {"request"} : pc[u] \notin HoldsSearch
      BY ThreadNames, Alone DEF HoldsSearch
    <3> QED BY <3>1, ThreadNames DEF HoldsSearch
  <2>4. \/ t = "request" /\ pc[t] \in {"fail flag", "interrupt flag"}
        \/ t = "background" /\ pc[t] = "interrupt flag"
        \/ t = "reader" /\ pc[t] \in {"list flag", "deal flag"}
        \/ t = "alarm" /\ pc[t] = "timeout flag"
    BY <2>1, ThreadNames, PlacesAre DEF Places, FlagLabels, Commanding, Sending
  <2>5. HandlerIsOff' /\ Paused' /\ StillFlagged'
    BY <1>0, <2>1, <2>2, <2>3, <2>4, AfterFlagIs, ThreadNames
  <2>6. Flagged' /\ Armed'
    BY <1>0, <2>1, <2>2, <2>3, <2>4, AfterFlagIs, ThreadNames
  <2>7. Down'
    BY <1>0, <2>1, <2>2, <2>3, <2>4, AfterFlagIs, ThreadNames
  <2>8. FlagIsOwed' /\ AlarmIsOwed'
    BY <1>0, <2>1, <2>2, <2>3, <2>4, AfterFlagIs, ThreadNames
  <2> QED BY <2>5, <2>6, <2>7, <2>8
<1> QED BY <1>1, <1>2 DEF FlagStep

LEMMA StepKeepsGuarded ==
  Places /\ Holders /\ Values /\ Asked /\ Guarded /\ [Next]_vars => Guarded'
<1> SUFFICES ASSUME Places, Holders, Values, Asked, Guarded, [Next]_vars
             PROVE  Guarded'
  OBVIOUS
<1>1. CASE UNCHANGED vars
  BY <1>1 DEF vars, search, guard, Guarded, HandlerIsOff, Paused, StillFlagged,
     Flagged, Armed, Down, FlagIsOwed, AlarmIsOwed, AtIt
<1> QED BY <1>1, SearchKeepsGuarded, CommandKeepsGuarded, ListKeepsGuarded,
           HandlerKeepsGuarded, FlagKeepsGuarded DEF Next, Ask

-----------------------------------------------------------------------------
(* Lists that come late. *)

(* Unless a handler was late: the search that is about to be let go has    *)
(* been answered,                                                          *)
Heard ==
  "late handler" \notin lapses /\ kept # NoSearch
    /\ (Reported \/ pc["alarm"] \in {"timeout flag", "timeout end"})
  => answers[kept] # <<>>

(* and so a list that is still to come is of the search that is kept, or   *)
(* is being begun, or of one that has been answered.                       *)
Known(l) ==
  \/ l = kept
  \/ answers[l] # <<>>
  \/ l = asked /\ pc["request"] \in {"search wait", "refused", "begun"}

Coming(l) == l = line.list \/ \E i \in 1..Len(owed) : owed[i] = l

ListsKnown ==
  "late handler" \notin lapses => \A l \in Searches : Coming(l) => Known(l)

Late == Heard /\ ListsKnown /\ OthersListsAreLate

LEMMA Elements ==
  ASSUME NEW S, NEW q \in Seq(S)
  PROVE  /\ Len(q) \in Nat /\ DOMAIN q = 1..Len(q)
         /\ \A i \in 1..Len(q) : q[i] \in S
OBVIOUS

LEMMA OneMore == \A n \in Nat : \A i \in 1..(n + 1) : i \in 1..n \/ i = n + 1
OBVIOUS

LEMMA Appended ==
  ASSUME NEW S, NEW q \in Seq(S), NEW e \in S,
         NEW i \in 1..Len(Append(q, e))
  PROVE  \/ i \in 1..Len(q) /\ Append(q, e)[i] = q[i]
         \/ Append(q, e)[i] = e
OBVIOUS

LEMMA ToldGrows ==
  ASSUME Values, NEW s \in Searches, NEW a, Told(s, a)
  PROVE  /\ answers'[s] # <<>>
         /\ \A u \in Searches : answers[u] # <<>> => answers'[u] # <<>>
<1>1. Len(answers[s]) \in Nat
  <2>1. answers[s] \in Seq(Answers)
    BY DEF Values, Records
  <2> QED BY <2>1
<1>2. Len(answers'[s]) # 0 /\ Len(<<>>) = 0
  BY <1>1 DEF Told
<1> QED BY <1>2 DEF Told

(* A search is told something that comes with no list, with its own, or    *)
(* with that of one that has been answered.                                *)
LEMMA ToldKeepsLate ==
  ASSUME Values, OthersListsAreLate, NEW s \in Searches, NEW a, Told(s, a),
         lapses' = lapses,
         a.list \notin {s, NoSearch} => \/ answers'[a.list] # <<>>
                                        \/ "late handler" \in lapses
  PROVE  OthersListsAreLate'
<1>1. /\ answers \in Records /\ answers' \in Records
      /\ \A u \in Searches : answers[u] \in Seq(Answers)
      /\ \A u \in Searches : answers'[u] \in Seq(Answers)
  BY DEF Values, Records, Told
<1>2. \A u \in Searches : /\ DOMAIN answers[u] = 1..Len(answers[u])
                          /\ DOMAIN answers'[u] = 1..Len(answers'[u])
                          /\ \A i \in 1..Len(answers[u]) : answers[u][i] \in Answers
  BY <1>1, Elements
<1>3. Len(answers[s]) \in Nat
  BY <1>1, Elements
<1>4. Len(answers'[s]) = Len(answers[s]) + 1
  BY DEF Told
<1>5. \A i \in 1..Len(answers'[s]) : \/ i \in 1..Len(answers[s])
                                     \/ i = Len(answers[s]) + 1
  BY <1>3, <1>4, OneMore
<1> SUFFICES ASSUME NEW u \in Searches, NEW i \in DOMAIN answers'[u],
                    answers'[u][i].list \notin {u, NoSearch}
             PROVE  \/ answers'[answers'[u][i].list] # <<>>
                    \/ "late handler" \in lapses
  BY DEF OthersListsAreLate
<1>6. CASE u = s /\ i = Len(answers[s]) + 1
  BY <1>6 DEF Told
<1>7. CASE ~(u = s /\ i = Len(answers[s]) + 1)
  <2>1. i \in DOMAIN answers[u] /\ answers'[u][i] = answers[u][i]
    BY <1>2, <1>5, <1>7 DEF Told
  <2>2. \/ answers[answers[u][i].list] # <<>>
        \/ "late handler" \in lapses
    BY <2>1 DEF OthersListsAreLate
  <2>3. answers[u][i].list \in Searches
    <3>1. answers[u][i] \in Answers
      BY <1>2, <2>1
    <3> QED BY <2>1, <3>1 DEF Answers
  <2> QED BY <2>1, <2>2, <2>3, ToldGrows
<1> QED BY <1>6, <1>7

(* No list is forgotten.                                                   *)
LEMMA StillKnown ==
  ASSUME Values, ListsKnown, owed' = owed, line'.list \in {line.list, NoSearch},
         "late handler" \notin lapses' =>
           /\ "late handler" \notin lapses
           /\ \A l \in Searches : Known(l) => Known(l)'
  PROVE  ListsKnown'
<1>1. \A l \in Searches : Coming(l)' => Coming(l)
  BY SearchNumbers DEF Coming
<1> QED BY <1>1 DEF ListsKnown

Sought  == {"search wait", "refused", "begun"}
LetGo   == {"fail end", "interrupt flag", "interrupt end", "deal end",
            "timeout flag", "timeout end"}

(* A step that neither keeps nor tells nor asks, nor takes a list to what  *)
(* is to come, nor goes where a search is about to be let go.              *)
LEMMA QuietKeepsLate ==
  ASSUME Values, Late, UNCHANGED <<kept, answers, asked, owed>>,
         line'.list \in {line.list, NoSearch},
         "late handler" \notin lapses' => "late handler" \notin lapses,
         Reported' => Reported,
         pc'["alarm"] \in {"timeout flag", "timeout end"} =>
           pc["alarm"] \in {"timeout flag", "timeout end"},
         pc["request"] \in Sought => pc'["request"] \in Sought
  PROVE  Late'
<1>1. Heard'
  BY DEF Late, Heard
<1>2. \A l \in Searches : Known(l) => Known(l)'
  BY DEF Known, Sought
<1>3. ListsKnown'
  BY <1>2, StillKnown DEF Late
<1>4. OthersListsAreLate'
  BY DEF Late, OthersListsAreLate
<1> QED BY <1>1, <1>3, <1>4 DEF Late

LEMMA QuietMoveKeepsLate ==
  ASSUME Places, Values, Late, UNCHANGED <<kept, answers, asked, owed>>,
         line'.list \in {line.list, NoSearch},
         "late handler" \notin lapses' => "late handler" \notin lapses,
         NEW t \in Threads, NEW l, Goto(t, l), l \notin LetGo,
         pc[t] \in Sought => l \in Sought
  PROVE  Late'
<1>1. pc'[t] = l /\ \A u \in Threads \ {t} : pc'[u] = pc[u]
  BY GotoMoves
<1>2. Reported' => Reported
  BY <1>1, ThreadNames DEF Reported, LetGo
<1>3. pc'["alarm"] \in {"timeout flag", "timeout end"} =>
        pc["alarm"] \in {"timeout flag", "timeout end"}
  BY <1>1, ThreadNames DEF LetGo
<1>4. pc["request"] \in Sought => pc'["request"] \in Sought
  BY <1>1, ThreadNames
<1> QED BY <1>2, <1>3, <1>4, QuietKeepsLate

(* A report, with no list or one that is known while no search is begun.   *)
LEMMA ReportKeepsLate ==
  ASSUME Values, Late, NEW by \in Makers, NEW error \in Errors,
         NEW list \in Searches \union {NoSearch}, Report(by, error, list),
         UNCHANGED <<kept, asked, owed, lapses>>,
         line'.list \in {line.list, NoSearch},
         pc["request"] \in Sought => pc'["request"] \in Sought,
         \/ list = NoSearch
         \/ list = line.list /\ pc["request"] \notin Sought
  PROVE  Late'
<1>1. CASE kept = NoSearch /\ answers' = answers
  <2>1. Heard'
    BY <1>1 DEF Heard
  <2>2. \A l \in Searches : Known(l) => Known(l)'
    BY <1>1 DEF Known, Sought
  <2>3. ListsKnown'
    BY <2>2, StillKnown DEF Late
  <2>4. OthersListsAreLate'
    BY <1>1 DEF Late, OthersListsAreLate
  <2> QED BY <2>1, <2>3, <2>4 DEF Late
<1> DEFINE a == Answer(by, error, list)
<1>2. CASE kept \in Searches /\ Told(kept, a)
  <2>1. a.list = list
    BY DEF Answer
  <2> HIDE DEF a
  <2>2. /\ answers'[kept] # <<>>
        /\ \A u \in Searches : answers[u] # <<>> => answers'[u] # <<>>
    BY <1>2, ToldGrows
  <2>3. Heard'
    BY <2>2 DEF Heard
  <2>4. \A l \in Searches : Known(l) => Known(l)'
    BY <2>2 DEF Known, Sought
  <2>5. ListsKnown'
    BY <2>4, StillKnown DEF Late
  <2>6. list \notin {kept, NoSearch} => \/ answers'[list] # <<>>
                                        \/ "late handler" \in lapses
    <3> SUFFICES ASSUME list \notin {kept, NoSearch}, "late handler" \notin lapses
                 PROVE  answers'[list] # <<>>
      OBVIOUS
    <3>1. Known(list)
      BY DEF Late, ListsKnown, Coming
    <3>2. answers[list] # <<>>
      BY <3>1 DEF Known, Sought
    <3> QED BY <2>2, <3>2
  <2>7. OthersListsAreLate'
    BY <1>2, <2>1, <2>6, ToldKeepsLate DEF Late
  <2> QED BY <2>3, <2>5, <2>7 DEF Late
<1> HIDE DEF a
<1> QED BY <1>1, <1>2, ReportTells DEF a

(* A search that is let go has been answered.                              *)
LEMMA EndKeepsLate ==
  ASSUME Places, Values, Late, NEW t \in Threads, NEW label, NEW next,
         EndSearch(t, label, next), label \notin Sought,
         Reported \/ pc["alarm"] \in {"timeout flag", "timeout end"}
  PROVE  Late'
<1>1. /\ kept' = NoSearch /\ UNCHANGED <<answers, asked, owed, line, lapses>>
      /\ Goto(t, next) /\ pc[t] = label
  BY DEF EndSearch, At, modem, calls
<1>2. pc["request"] \in Sought => pc'["request"] = pc["request"]
  BY <1>1, GotoMoves, ThreadNames
<1>3. Heard'
  BY <1>1 DEF Heard
<1>4. "late handler" \notin lapses => \A l \in Searches : Known(l) => Known(l)'
  <2>1. "late handler" \notin lapses /\ kept # NoSearch => answers[kept] # <<>>
    BY DEF Late, Heard
  <2>2. NoSearch \notin Searches
    BY SearchNumbers
  <2> QED BY <1>1, <1>2, <2>1, <2>2 DEF Known, Sought
<1>5. line'.list \in {line.list, NoSearch} /\ owed' = owed
  BY <1>1
<1>6. ListsKnown'
  BY <1>1, <1>4, <1>5, StillKnown DEF Late
<1>7. OthersListsAreLate'
  BY <1>1 DEF Late, OthersListsAreLate
<1> QED BY <1>3, <1>6, <1>7 DEF Late

LEMMA SearchKeepsLate ==
  ASSUME Places, Holders, Values, Asked, HandlerIsOff, Late,
         AskSearch \/ SearchStep
  PROVE  Late'
<1> USE DEF Sought, LetGo
<1>0. /\ "request" \in Threads /\ "request" \in Hosts
      /\ asked \in Searches \union {NoSearch} /\ line.list \in {line.list, NoSearch}
      /\ pc["request"] \in Searching => asked \in Searches
  BY ThreadNames DEF Values, Asked
<1>1. CASE AskSearch
  <2>1. /\ UNCHANGED <<kept, answers, owed, line>> /\ Goto("request", "look")
        /\ pc["request"] = "idle"
        /\ "late handler" \notin lapses' => "late handler" \notin lapses
    BY <1>1 DEF AskSearch, At, search, modem
  <2>2. pc'["request"] = "look" /\ \A u \in Threads \ {"request"} : pc'[u] = pc[u]
    BY <1>0, <2>1, GotoMoves
  <2>3. Reported' <=> Reported
    BY <2>1, <2>2, ThreadNames DEF Reported
  <2>4. Heard'
    BY <2>1, <2>2, <2>3, ThreadNames DEF Late, Heard
  <2>5. \A l \in Searches : Known(l) => Known(l)'
    BY <2>1 DEF Known
  <2>6. ListsKnown'
    BY <2>1, <2>5, StillKnown DEF Late
  <2>7. OthersListsAreLate'
    BY <2>1 DEF Late, OthersListsAreLate
  <2> QED BY <2>4, <2>6, <2>7 DEF Late
<1>2. CASE RefuseRepeat
  <2> DEFINE a == Answer("repeat", "searching", NoSearch)
  <2>1. /\ Told(asked, a) /\ asked \in Searches /\ pc["request"] = "look"
        /\ UNCHANGED <<kept, asked, owed, line, lapses>>
        /\ Goto("request", "idle")
    BY <1>0, <1>2, TellTells
       DEF RefuseRepeat, At, modem, calls, Makers, Errors, Searching
  <2>2. a.list = NoSearch
    BY DEF Answer
  <2> HIDE DEF a
  <2>3. pc'["request"] = "idle" /\ \A u \in Threads \ {"request"} : pc'[u] = pc[u]
    BY <1>0, <2>1, GotoMoves
  <2>4. \A u \in Searches : answers[u] # <<>> => answers'[u] # <<>>
    BY <2>1, ToldGrows
  <2>5. Reported' <=> Reported
    BY <2>1, <2>3, ThreadNames DEF Reported
  <2>6. Heard'
    <3>1. kept # NoSearch => kept \in Searches
      BY DEF Values
    <3> QED BY <2>1, <2>3, <2>4, <2>5, <3>1, ThreadNames DEF Late, Heard
  <2>7. \A l \in Searches : Known(l) => Known(l)'
    BY <2>1, <2>4 DEF Known
  <2>8. ListsKnown'
    BY <2>1, <2>7, StillKnown DEF Late
  <2>9. OthersListsAreLate'
    BY <2>1, <2>2, ToldKeepsLate DEF Late
  <2> QED BY <2>6, <2>8, <2>9 DEF Late
<1>3. CASE SendSearch
  <2>1. /\ UNCHANGED <<kept, answers, asked, line, lapses>>
        /\ pc["request"] = "search command"
        /\ \E l \in {"refused", "search wait"} : Goto("request", l)
        /\ owed' = Append(owed, asked) \/ owed' = owed
    BY <1>3 DEF SendSearch, Exchange, At, search, calls
  <2>2. /\ pc'["request"] \in {"refused", "search wait"}
        /\ \A u \in Threads \ {"request"} : pc'[u] = pc[u]
    BY <1>0, <2>1, GotoMoves
  <2>3. Reported' <=> Reported
    BY <2>1, <2>2, ThreadNames DEF Reported
  <2>4. Heard'
    BY <2>1, <2>2, <2>3, ThreadNames DEF Late, Heard
  <2>5. ListsKnown'
    <3>1. owed \in Seq(Searches) /\ asked \in Searches
      BY <1>0, <2>1 DEF Values, Searching, Beginning
    <3>2. \A i \in 1..Len(owed') :
            \/ i \in 1..Len(owed) /\ owed'[i] = owed[i]
            \/ owed'[i] = asked
      <4>1. CASE owed' = owed
        BY <4>1
      <4>2. CASE owed' = Append(owed, asked)
        BY <3>1, <4>2, Appended
      <4> QED BY <2>1, <4>1, <4>2
    <3>3. \A l \in Searches : Coming(l)' => Coming(l) \/ l = asked
      BY <2>1, <3>2 DEF Coming
    <3>4. \A l \in Searches : Known(l) \/ l = asked => Known(l)'
      BY <2>1, <2>2 DEF Known
    <3> QED BY <2>1, <3>3, <3>4 DEF Late, ListsKnown
  <2>6. OthersListsAreLate'
    BY <2>1 DEF Late, OthersListsAreLate
  <2> QED BY <2>4, <2>5, <2>6 DEF Late
<1>4. CASE KeepBegun \/ KeepRefused
  <2>1. /\ kept' = asked /\ UNCHANGED <<answers, asked, owed, line, lapses>>
        /\ \E l \in {"set watch", "fail flag"} : Goto("request", l)
        /\ pc["request"] \in {"begun", "refused"}
    BY <1>4 DEF KeepBegun, KeepRefused, At, modem, calls
  <2>2. /\ pc'["request"] \in {"set watch", "fail flag"}
        /\ \A u \in Threads \ {"request"} : pc'[u] = pc[u]
    BY <1>0, <2>1, GotoMoves
  <2>3. kept = NoSearch /\ NoSearch \notin Searches
    BY <2>1, SearchNumbers DEF Asked, Beginning
  <2>4. ~Reported'
    <3>1. ~Reported
      BY <1>0, <2>1, HolderFindsUnreported
         DEF HoldsSearch, Searching, Beginning
    <3> QED BY <2>2, <3>1, ThreadNames DEF Reported
  <2>5. "late handler" \notin lapses => pc'["alarm"] = "idle"
    BY <2>1, <2>2, ThreadNames DEF HandlerIsOff, Beginning
  <2>6. Heard'
    BY <2>1, <2>4, <2>5 DEF Heard
  <2>7. \A l \in Searches : Known(l) => Known(l)'
    BY <2>1, <2>3 DEF Known
  <2>8. ListsKnown'
    BY <2>1, <2>7, StillKnown DEF Late
  <2>9. OthersListsAreLate'
    BY <2>1 DEF Late, OthersListsAreLate
  <2> QED BY <2>6, <2>8, <2>9 DEF Late
<1>5. CASE ReportRefused
  <2>1. /\ Report("refusal", "refused", NoSearch) /\ pc["request"] = "fail report"
        /\ UNCHANGED <<kept, asked, owed, line, lapses>>
    BY <1>5 DEF ReportRefused, At, modem, calls
  <2>2. "refusal" \in Makers /\ "refused" \in Errors
    BY DEF Makers, Errors
  <2> QED BY <2>1, <2>2, ReportKeepsLate
<1>6. CASE EndSearch("request", "fail end", "idle")
  <2>1. Reported
    BY <1>6 DEF EndSearch, At, Reported
  <2> QED BY <1>0, <1>6, <2>1, EndKeepsLate
<1>7. CASE InstallHandler \/ SearchReturns \/ SetWatchFunction
  <2>1. /\ pc["request"] \in {"look", "search wait", "set watch"}
        /\ UNCHANGED <<kept, answers, asked, owed, line>>
        /\ "late handler" \notin lapses' => "late handler" \notin lapses
    BY <1>7 DEF InstallHandler, SearchReturns, SetWatchFunction, At, search,
                modem, calls
  <2>2. \E l \in {"search command", "idle", "refused", "begun"} :
          Goto("request", l) /\ (pc["request"] \in Sought => l \in Sought)
    BY <1>7 DEF InstallHandler, SearchReturns, SetWatchFunction, At
  <2> QED BY <1>0, <2>1, <2>2, QuietMoveKeepsLate
<1> QED BY <1>1, <1>2, <1>3, <1>4, <1>5, <1>6, <1>7 DEF SearchStep

LEMMA CommandKeepsLate ==
  ASSUME Places, Holders, Values, Late, NEW t \in Senders,
         AskCommand(t) \/ CommandStep(t)
  PROVE  Late'
<1> USE DEF Sought, LetGo
<1>0. t \in Threads /\ line.list \in {line.list, NoSearch}
  BY ThreadNames
<1>1. CASE Interrupt(t)
  <2>1. /\ Report("pause", "interrupted", NoSearch) /\ pc[t] = "interrupt"
        /\ UNCHANGED <<kept, asked, owed, line, lapses>>
        /\ Goto(t, "interrupt flag")
    BY <1>1 DEF Interrupt, At, modem, calls
  <2>2. pc["request"] \in Sought => pc'["request"] \in Sought
    BY <1>0, <2>1, GotoMoves, ThreadNames
  <2>3. "pause" \in Makers /\ "interrupted" \in Errors
    BY DEF Makers, Errors
  <2> QED BY <2>1, <2>2, <2>3, ReportKeepsLate
<1>2. CASE EndSearch(t, "interrupt end", "resume")
  <2>1. Reported
    BY <1>2 DEF EndSearch, At, Reported
  <2> QED BY <1>0, <1>2, <2>1, EndKeepsLate
<1>3. ASSUME AskCommand(t) \/ SendStop(t) \/ StopReturns(t) \/ LockWatched(t)
             \/ Resume(t) \/ SendOther(t) \/ OtherReturns(t)
      PROVE  Late'
  <2>1. /\ pc[t] \in {"idle", "stop", "stop wait", "watch", "resume", "send",
                      "send wait"}
        /\ UNCHANGED <<kept, answers, asked, owed, line>>
        /\ "late handler" \notin lapses' => "late handler" \notin lapses
    BY <1>3 DEF AskCommand, SendStop, StopReturns, LockWatched, Resume,
                SendOther, OtherReturns, At, search, modem, calls
  <2>2. \E l \in {"stop", "send", "watch", "stop wait", "interrupt", "resume",
                  "idle", "send wait"} : Goto(t, l)
    BY <1>3 DEF AskCommand, SendStop, StopReturns, LockWatched, Resume,
                SendOther, OtherReturns, Exchange
  <2> QED BY <1>0, <2>1, <2>2, QuietMoveKeepsLate
<1> QED BY <1>1, <1>2, <1>3 DEF CommandStep

LEMMA ListKeepsLate ==
  ASSUME Places, Holders, Values, Late, ReadList \/ ListStep
  PROVE  Late'
<1> USE DEF Sought, LetGo
<1>0. /\ "reader" \in Threads /\ "reader" \in Hosts
      /\ line.list \in {line.list, NoSearch} /\ NoLine.list = NoSearch
  BY ThreadNames DEF NoLine
<1>1. CASE ReadList
  <2>1. /\ owed # <<>> /\ owed' = Tail(owed) /\ line'.list = Head(owed)
        /\ UNCHANGED <<kept, answers, asked, lapses>>
        /\ pc["reader"] = "idle" /\ Goto("reader", "line")
    BY <1>1 DEF ReadList, At, search, calls
  <2>2. pc'["reader"] = "line" /\ \A u \in Threads \ {"reader"} : pc'[u] = pc[u]
    BY <1>0, <2>1, GotoMoves
  <2>3. (Reported' <=> Reported) /\ pc'["request"] = pc["request"]
        /\ pc'["alarm"] = pc["alarm"]
    BY <2>1, <2>2, ThreadNames DEF Reported
  <2>4. Heard'
    BY <2>1, <2>3 DEF Late, Heard
  <2>5. \A l \in Searches : Known(l) => Known(l)'
    BY <2>1, <2>3 DEF Known
  <2>6. ListsKnown'
    <3>1. owed \in Seq(Searches)
      BY DEF Values
    <3>2. /\ Head(owed) = owed[1] /\ 1 \in 1..Len(owed)
          /\ \A i \in 1..Len(owed') : i + 1 \in 1..Len(owed) /\ owed'[i] = owed[i + 1]
      BY <2>1, <3>1
    <3>3. \A l \in Searches : Coming(l)' => Coming(l)
      BY <2>1, <3>2 DEF Coming
    <3> QED BY <2>1, <2>5, <3>3 DEF Late, ListsKnown
  <2>7. OthersListsAreLate'
    BY <2>1 DEF Late, OthersListsAreLate
  <2> QED BY <2>4, <2>6, <2>7 DEF Late
<1>2. CASE ReportList
  <2> DEFINE error == IF kept # NoSearch /\ line.list = NoSearch THEN "invalid"
                                                                ELSE keptError
  <2>1. /\ Report("list", error, line.list) /\ line' = NoLine
        /\ UNCHANGED <<kept, asked, owed, lapses>>
        /\ Goto("reader", "deal end") /\ pc["reader"] = "deal report"
    BY <1>2 DEF ReportList, At, modem, calls
  <2>2. error \in Errors /\ "list" \in Makers
        /\ line.list \in Searches \union {NoSearch}
    BY DEF Values, Errors, Makers
  <2>3. pc["request"] \notin Sought
    <3>1. searchMutex = "reader"
      BY <1>0, <2>1 DEF Holders, HoldsSearch, Dealing
    <3> QED BY <3>1, ThreadNames DEF Holders, HoldsSearch, Searching, Beginning
  <2> HIDE DEF error
  <2> QED BY <1>0, <2>1, <2>2, <2>3, ReportKeepsLate
<1>3. CASE EndSearch("reader", "deal end", "idle")
  <2>1. Reported
    BY <1>3 DEF EndSearch, At, Reported
  <2> QED BY <1>0, <1>3, <2>1, EndKeepsLate
<1>4. CASE DispatchList \/ ListAlarm \/ LockDeal
  <2>1. /\ pc["reader"] \in {"line", "list alarm", "deal"}
        /\ UNCHANGED <<kept, answers, asked, owed, lapses>>
        /\ \E l \in {"idle", "list flag", "deal", "deal flag"} : Goto("reader", l)
    BY <1>4 DEF DispatchList, ListAlarm, LockDeal, At, search, modem, calls
  <2>2. line'.list \in {line.list, NoSearch}
    BY <1>0, <1>4 DEF DispatchList, ListAlarm, LockDeal, Values
  <2> QED BY <1>0, <2>1, <2>2, QuietMoveKeepsLate
<1> QED BY <1>1, <1>2, <1>3, <1>4 DEF ListStep

LEMMA HandlerKeepsLate ==
  ASSUME Places, Holders, Values, Late, Expire \/ HandlerStep
  PROVE  Late'
<1> USE DEF Sought, LetGo
<1>0. "alarm" \in Threads /\ line.list \in {line.list, NoSearch}
  BY ThreadNames
<1>1. CASE Expire \/ PerformTimeOut
  <2>1. /\ pc["alarm"] \in {"idle", "timeout"}
        /\ UNCHANGED <<kept, answers, asked, owed, line, lapses>>
        /\ \E l \in {"timeout", "timeout report", "idle"} : Goto("alarm", l)
    BY <1>1 DEF Expire, PerformTimeOut, At, search, modem, calls
  <2> QED BY <1>0, <2>1, QuietMoveKeepsLate
<1>2. CASE ReportTimeout
  <2>1. /\ Report("alarm", keptError, NoSearch) /\ Goto("alarm", "timeout flag")
        /\ UNCHANGED <<kept, asked, owed, line, lapses>>
    BY <1>2 DEF ReportTimeout, modem, calls
  <2>2. pc'["request"] = pc["request"]
    BY <1>0, <2>1, GotoMoves, ThreadNames
  <2>3. "alarm" \in Makers /\ keptError \in Errors
    BY DEF Values, Makers
  <2> QED BY <2>1, <2>2, <2>3, ReportKeepsLate
<1>3. CASE EndSearch("alarm", "timeout end", "idle")
  <2>1. pc["alarm"] = "timeout end"
    BY <1>3 DEF EndSearch, At
  <2> QED BY <1>0, <1>3, <2>1, EndKeepsLate
<1> QED BY <1>1, <1>2, <1>3 DEF HandlerStep

LEMMA StepKeepsLate ==
  /\ Places /\ Holders /\ Values /\ Asked /\ HandlerIsOff /\ Late
  /\ [Next]_vars
  => Late'
<1> SUFFICES ASSUME Places, Holders, Values, Asked, HandlerIsOff, Late,
                    [Next]_vars
             PROVE  Late'
  OBVIOUS
<1>1. CASE UNCHANGED vars \/ \E t \in Threads : LockFlag(t)
  <2>1. UNCHANGED <<pc, kept, answers, asked, owed, line, lapses>>
    BY <1>1 DEF vars, LockFlag, search, modem, calls
  <2> QED BY <2>1, QuietKeepsLate DEF Reported
<1>2. ASSUME NEW t \in Threads, ClearFlag(t) PROVE Late'
  <2>1. /\ pc[t] \in FlagLabels /\ Goto(t, AfterFlag(pc[t])) /\ pc[t] \in PlacesOf(t)
        /\ UNCHANGED <<kept, answers, asked, owed, line, lapses>>
    BY <1>2 DEF ClearFlag, Holders, Places, search, modem, calls
  <2>2. pc'[t] = AfterFlag(pc[t]) /\ \A u \in Threads \ {t} : pc'[u] = pc[u]
    BY <2>1, GotoMoves
  <2>3. Reported' => Reported
    BY <2>1, <2>2, AfterFlagIs, ThreadNames DEF FlagLabels, Reported
  <2>4. pc'["alarm"] \in {"timeout flag", "timeout end"} =>
          pc["alarm"] \in {"timeout flag", "timeout end"}
    BY <2>1, <2>2, AfterFlagIs, ThreadNames DEF FlagLabels
  <2>5. pc["request"] \in Sought => pc'["request"] \in Sought
    BY <2>1, <2>2, ThreadNames DEF FlagLabels, Sought
  <2> QED BY <2>1, <2>3, <2>4, <2>5, QuietKeepsLate
<1> QED BY <1>1, <1>2, SearchKeepsLate, CommandKeepsLate, ListKeepsLate,
           HandlerKeepsLate DEF Next, Ask, FlagStep

-----------------------------------------------------------------------------
(* The inductive invariant, and what follows from it. *)

Inv == Places /\ Holders /\ Values /\ Answered /\ Guarded /\ Late

LEMMA InitInv == Init => Inv
<1> SUFFICES ASSUME Init PROVE Inv
  OBVIOUS
<1>1. pc = [t \in Threads |-> "idle"] /\ \A t \in Threads : pc[t] = "idle"
  BY DEF Init
<1>2. /\ searchMutex = Free /\ commandMutex = Free /\ flagMutex = Free
      /\ pauseFlag = FALSE /\ armed = FALSE /\ watch = FALSE
      /\ kept = NoSearch /\ asked = 0 /\ lapses = {} /\ owed = <<>>
      /\ line = NoLine /\ answers = [s \in Searches |-> <<>>]
  BY DEF Init
<1>3. Places
  <2>1. "idle" \in Labels /\ \A t \in Threads : "idle" \in PlacesOf(t)
    BY PlacesAre, ThreadNames DEF Labels, Commanding
  <2> QED BY <1>1, <2>1 DEF Places
<1>4. Holders
  <2>1. "idle" \notin HoldsSearch /\ "idle" \notin Sending
    BY DEF HoldsSearch, Searching, Beginning, Failing, Pausing, Dealing, Sending
  <2>2. Free \notin Threads
    BY ThreadNames DEF Free
  <2> QED BY <1>1, <1>2, <2>1, <2>2, ThreadNames DEF Holders
<1>5. Values
  <2>1. answers \in Records
    <3>1. <<>> \in Seq(Answers)
      OBVIOUS
    <3> QED BY <1>2, <3>1 DEF Records
  <2>2. line \in [list : Searches \union {NoSearch}, matches : BOOLEAN]
    BY <1>2 DEF NoLine
  <2>3. commands \in 0..MaxCommands /\ owed \in Seq(Searches)
    <3>1. commands = 0
      BY DEF Init
    <3> QED BY <1>2, <3>1, BoundAssumption
  <2>4. /\ host = Nobody /\ keptError \in Errors /\ response = Nobody
        /\ prefix = FALSE
    BY DEF Init, Errors
  <2> QED BY <1>2, <2>1, <2>2, <2>3, <2>4 DEF Values, NoSearch
<1>6. Answered
  <2>1. pc["request"] = "idle" /\ pc["alarm"] = "idle"
    BY <1>1, ThreadNames
  <2>2. \A s \in Searches : answers[s] = <<>> /\ Len(answers[s]) = 0
    BY <1>2
  <2>3. Asked
    <3>1. kept <= asked
      BY <1>2 DEF NoSearch
    <3> QED BY <2>1, <2>2, <3>1 DEF Asked, Searching, Beginning, Failing
  <2>4. TwiceByAlarm /\ OwnErrors
    BY <2>2 DEF TwiceByAlarm, OwnErrors
  <2> QED BY <1>2, <2>3, <2>4 DEF Answered, Unreported, ErrorIsFresh
<1>7. Guarded
  <2>1. /\ pc["request"] = "idle" /\ pc["background"] = "idle"
        /\ pc["reader"] = "idle" /\ pc["alarm"] = "idle"
    BY <1>1, ThreadNames
  <2> QED BY <1>2, <2>1, ThreadNames
          DEF Guarded, HandlerIsOff, Paused, StillFlagged, Flagged, Armed, Down,
              FlagIsOwed, AlarmIsOwed, Searching, Beginning, Failing
<1>8. Late
  <2>1. \A l \in Searches : ~Coming(l)
    BY <1>2, SearchNumbers DEF Coming, NoLine
  <2>2. OthersListsAreLate
    BY <1>2 DEF OthersListsAreLate
  <2> QED BY <1>2, <2>1, <2>2 DEF Late, Heard, ListsKnown
<1> QED BY <1>3, <1>4, <1>5, <1>6, <1>7, <1>8 DEF Inv

LEMMA StepInv == Inv /\ [Next]_vars => Inv'
<1> SUFFICES ASSUME Inv, [Next]_vars PROVE Inv'
  OBVIOUS
<1>1. /\ Places /\ Holders /\ Values /\ Asked /\ Answered /\ HandlerIsOff
      /\ Guarded /\ Late
  BY DEF Inv, Answered, Guarded
<1> QED BY <1>1, StepKeepsPlaces, StepKeepsHolders, StepKeepsValues,
           StepKeepsAnswered, StepKeepsGuarded, StepKeepsLate DEF Inv

LEMMA SpecInv == Spec => []Inv
BY InitInv, StepInv, PTL DEF Spec

(* Every variable keeps its type, and answers go only to searches that     *)
(* were asked for.                                                         *)
THEOREM SearchTypes == Spec => []TypeOK
<1>1. Inv => TypeOK
  BY DEF Inv, Places, Holders, Values, Records, Answered, Asked, TypeOK
<1> QED BY <1>1, SpecInv, PTL

(* Threads stop for good in two ways only: the request thread in the midst *)
(* of a search and a thread that pauses it, or the handler of the alarm on *)
(* top of a thread that holds the mutex of the flag.                       *)
THEOREM TwoWaysToStop == Spec => []CyclesAreKnown
<1>1. Inv => CyclesAreKnown
  <2>1. Inv => host # "alarm"
    BY ThreadNames DEF Inv, Values, Nobody
  <2> QED BY <2>1, HoldersMakeNoCycles DEF Inv
<1> QED BY <1>1, SpecInv, PTL

(* Two answers to one search, or an answer with the error of another end,  *)
(* come only of PerformTimeOut, which reports with no mutex.               *)
THEOREM OneAnswerButForTheHandler == Spec => []OnlyTheHandlerMeets
<1>1. Inv => OnlyTheHandlerMeets
  <2> SUFFICES ASSUME Inv, NEW s \in Searches
               PROVE  /\ Len(answers[s]) > 1
                           => \E i \in DOMAIN answers[s] : answers[s][i].by = "alarm"
                      /\ \A i \in DOMAIN answers[s] :
                           \/ answers[s][i].error \in ErrorsOf[answers[s][i].by]
                           \/ answers[s][i].beside
    BY DEF OnlyTheHandlerMeets
  <2>1. answers[s] \in Seq(Answers)
    BY DEF Inv, Values, Records
  <2>2. DOMAIN answers[s] = 1..Len(answers[s])
    BY <2>1, Elements
  <2> QED BY <2>2 DEF Inv, Answered, TwiceByAlarm, OwnErrors
<1> QED BY <1>1, SpecInv, PTL

(* A search that is kept has its alarm and its flag, or a thread is about  *)
(* to end it, unless one of the lapses came before.                        *)
THEOREM KeptSearchIsGuarded == Spec => []SearchIsGuarded
<1>1. Inv => SearchIsGuarded
  BY DEF Inv, Guarded, Flagged, Armed, AtIt, Failing, Listing, Dealing, Pausing,
         TimingOut, SearchIsGuarded
<1> QED BY <1>1, SpecInv, PTL

(* With every thread at rest and no lapse, the pause flag and the alarm    *)
(* say whether a search is kept.                                           *)
THEOREM FlagAndAlarmAgree == Spec => []FlagMeansSearch
<1>1. Inv => FlagMeansSearch
  <2> SUFFICES ASSUME Inv, \A t \in Threads : pc[t] = "idle", lapses = {}
               PROVE  /\ pauseFlag = (kept # NoSearch)
                      /\ armed = (kept # NoSearch)
    BY DEF FlagMeansSearch
  <2>1. ~AtIt /\ pc["alarm"] = "idle" /\ pc["alarm"] \notin TimingOut
    BY ThreadNames DEF AtIt, Failing, Listing, Dealing, Pausing, TimingOut
  <2>2. /\ kept # NoSearch => pauseFlag /\ armed
        /\ pauseFlag => kept # NoSearch
        /\ armed => kept # NoSearch
    BY <2>1, ThreadNames DEF Inv, Guarded, Flagged, Armed, FlagIsOwed, AlarmIsOwed
  <2>3. pauseFlag \in BOOLEAN /\ armed \in BOOLEAN
    BY DEF Inv, Values
  <2> QED BY <2>2, <2>3
<1> QED BY <1>1, SpecInv, PTL

(* A list ends another search than its own only when that one had been     *)
(* answered before, or a handler was late.                                 *)
THEOREM ForeignListsAreLate == Spec => []OthersListsAreLate
<1>1. Inv => OthersListsAreLate
  BY DEF Inv, Late
<1> QED BY <1>1, SpecInv, PTL
=============================================================================
