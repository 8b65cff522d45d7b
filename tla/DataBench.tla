----------------------------- MODULE DataBench -----------------------------
(***************************************************************************)
(* The data side of the simulation testbench: the core's LSU, the memory   *)
(* driver that serves it (with injected stalls, or imitating the FPGA's    *)
(* block RAM), the monitor on the bus, and the scoreboard that rebuilds    *)
(* memory for the signature and turns the program's store to tohost into   *)
(* the verdict of the test, next to the test's watchdog.                   *)
(*                                                                         *)
(* A clock edge first moves the LSU's registers; the Python coroutines     *)
(* that wait for the edge then see the new values, and the monitor looks   *)
(* last (ReadOnly).  The scoreboard's two coroutines run after that, in    *)
(* any order, and simulated time does not advance before they rest.        *)
(***************************************************************************)
EXTENDS LoadStore

CONSTANTS
  Words,      (* the word addresses in use                                   *)
  ToHost,     (* the word that ends the test                                 *)
  Preload,    (* the image in the hex file                                   *)
  Requests,   (* what the program may ask of the LSU                         *)
  Stalls,     (* the latencies that the driver may inject                    *)
  Modes       (* the values of MEM_STALL_MODE: "stalls" or "fixed"           *)

WordValue == [Lane -> Byte]
Request == [load : BOOLEAN, word : Words, off : Lane, size : 0..2,
            sx : BOOLEAN, data : WordValue]

(* Every program declares its result word as "tohost: .dword 0".           *)
ASSUME DataAssumption ==
  /\ ToHost \in Words
  /\ Preload \in [Words -> WordValue] /\ Preload[ToHost] = ZeroWord
  /\ Requests \subseteq Request
  /\ Stalls \subseteq Nat
  /\ Modes \subseteq {"stalls", "fixed"}

VARIABLES
  mode,      (* MEM_STALL_MODE of this simulation                            *)
  lsu,       (* the LSU's request: {} or a singleton                         *)
  driver,    (* where the driver's coroutine is, and what it captured        *)
  ready, rdata,    (* s_ready and s_rdata                                    *)
  mem,       (* the driver's memory                                          *)
  shadow,    (* the monitor's: the words it has seen                         *)
  memwr, tohost,   (* the scoreboard's two analysis FIFOs                    *)
  sbmem,     (* the scoreboard's memory                                      *)
  verdict,   (* "running", "pass", "fail" or "timeout"                       *)
  bytes,     (* history: memory as the program's stores define it            *)
  wrong      (* history: a load has returned something else                  *)

dvars == <<mode, lsu, driver, ready, rdata, mem, shadow, memwr, tohost, sbmem,
           verdict, bytes, wrong>>

----------------------------------------------------------------------------
Asleep == [at |-> "idle", left |-> 0, word |-> ToHost, write |-> FALSE]
Unseen == [i \in {} |-> 0]

DataInit ==
  /\ mode \in Modes
  /\ lsu = {} /\ driver = Asleep /\ ready = FALSE /\ rdata = ZeroWord
  /\ mem = Preload /\ shadow = Unseen
  /\ memwr = << >> /\ tohost = << >>
  /\ sbmem = Preload /\ verdict = "running"
  /\ bytes = Preload /\ wrong = FALSE

----------------------------------------------------------------------------
(* What the program means by its accesses: bytes at addresses, and         *)
(* integers.  Misaligned accesses are not supported: a halfword then       *)
(* stores nothing and loads zero, and a word is the aligned one.           *)
Spans(r) ==
  IF r.size = 2 THEN Lane
  ELSE IF r.size = 0 THEN {r.off}
  ELSE IF r.off \in {0, 2} THEN {r.off, r.off + 1} ELSE {}
Stored(m, r) ==
  LET first == IF r.size = 2 THEN 0 ELSE r.off
  IN  IF r.load THEN m
      ELSE [m EXCEPT ![r.word] = [i \in Lane |-> IF i \in Spans(r) THEN r.data[i - first]
                                                 ELSE @[i]]]
SignedWord(w) == w[0] + 256 * w[1] + 65536 * w[2]
                   + 16777216 * (IF w[3] >= 128 THEN w[3] - 256 ELSE w[3])
Meant(m, r) ==
  LET b(i) == m[r.word][r.off + i]
      signed(x, span) == IF r.sx /\ x >= span \div 2 THEN x - span ELSE x
  IN  IF Spans(r) = {} THEN 0
      ELSE IF r.size = 2 THEN SignedWord(m[r.word])
      ELSE IF r.size = 0 THEN signed(b(0), 256)
      ELSE signed(b(0) + 256 * b(1), 65536)

(* The program has stored its result. *)
Ends(m) == m[ToHost][0] % 2 = 1

----------------------------------------------------------------------------
(* The LSU's register at the clock edge.  It holds its request until the   *)
(* memory answers, and may latch the next one with the answer.             *)
LsuEdge ==
  \/ /\ lsu # {} /\ ~ready
     /\ UNCHANGED <<lsu, bytes, wrong>>
  \/ /\ lsu = {} \/ ready
     /\ lsu' \in {{}} \cup {{r} : r \in Requests}
     /\ bytes' = IF lsu' = {} THEN bytes
                 ELSE Stored(bytes, CHOOSE r \in lsu' : TRUE)
     /\ wrong' = (wrong \/ \E r \in lsu : r.load /\
                    SignedWord(LoadAlign(r, rdata)) # Meant(bytes, r))

(* The driver's read or write of its memory.  Whether it writes was decided *)
(* when the request was captured; the data and strobes are read now.       *)
DriverAccess(write, w, r) ==
  /\ mem'   = IF write THEN [mem EXCEPT ![w] = Merge(@, Lanes(r), Strobes(r))]
              ELSE mem
  /\ rdata' = IF write THEN ZeroWord ELSE mem[w]
  /\ ready' = TRUE
NoAccess == ready' = FALSE /\ UNCHANGED <<mem, rdata>>

(* DMemDriver.run_phase from one clock edge to the next: after an answer   *)
(* it sleeps for one edge before it looks at the bus again.                *)
DriverEdge ==
  \/ /\ driver.at = "answered" \/ (driver.at = "idle" /\ lsu' = {})
     /\ NoAccess /\ driver' = Asleep
  \/ /\ driver.at = "idle"
     /\ \E r \in lsu', n \in Stalls :
          IF n = 0
          THEN /\ DriverAccess(Strobes(r) # {}, r.word, r)
               /\ driver' = [Asleep EXCEPT !.at = "answered"]
          ELSE /\ NoAccess
               /\ driver' = [at |-> "stalling", left |-> n, word |-> r.word,
                             write |-> Strobes(r) # {}]
  \/ /\ driver.at = "stalling" /\ driver.left > 1
     /\ NoAccess /\ driver' = [driver EXCEPT !.left = @ - 1]
  \/ /\ driver.at = "stalling" /\ driver.left = 1
     /\ \E r \in lsu' : DriverAccess(driver.write, driver.word, r)
     /\ driver' = [Asleep EXCEPT !.at = "answered"]

(* run_bram_responder: it samples the request before the edge, captures it *)
(* at the edge, and answers in the cycle that follows.                     *)
ResponderEdge ==
  \/ /\ driver.at = "answered" \/ lsu = {}
     /\ NoAccess /\ driver' = Asleep
  \/ /\ driver.at # "answered"
     /\ \E r \in lsu :
          /\ mem' = [mem EXCEPT ![r.word] = Merge(@, Lanes(r), Strobes(r))]
          /\ rdata' = mem[r.word]
          /\ ready' = (lsu' # {})
     /\ driver' = [Asleep EXCEPT !.at = "answered"]

----------------------------------------------------------------------------
(* The monitor sees an answered request once and merges a write into what  *)
(* it knows of the word, zero if it has not seen the word before.          *)
ShadowedNothing(w) == ZeroWord   \* mutant: the word is rebuilt from nothing
Shadowed(w) == IF w \in DOMAIN shadow THEN shadow[w] ELSE ZeroWord
SeenIs(w, word) == [x \in DOMAIN shadow \cup {w} |-> IF x = w THEN word ELSE shadow[x]]
MonitorWholeWords ==   \* mutant: only stores of a whole word are published
  LET whole == \E r \in lsu' : Strobes(r) = Lane
      now == ready' /\ whole
  IN  IF ~now THEN UNCHANGED <<shadow, memwr, tohost>>
      ELSE LET r == CHOOSE r \in lsu' : TRUE
           IN  /\ shadow' = SeenIs(r.word, Lanes(r))
               /\ memwr' = Append(memwr, [word |-> r.word, data |-> Lanes(r),
                                          strobes |-> Lane])
               /\ tohost' = IF r.word = ToHost THEN Append(tohost, Lanes(r)) ELSE tohost
Monitor ==
  IF ~(ready' /\ lsu' # {}) THEN UNCHANGED <<shadow, memwr, tohost>>
  ELSE LET r == CHOOSE r \in lsu' : TRUE
           merged == Merge(Shadowed(r.word), Lanes(r), Strobes(r))
       IN  IF Strobes(r) = {}
           THEN /\ shadow' = SeenIs(r.word, rdata')
                /\ UNCHANGED <<memwr, tohost>>
           ELSE /\ shadow' = SeenIs(r.word, merged)
                /\ memwr'  = Append(memwr, [word |-> r.word, data |-> Lanes(r),
                                            strobes |-> Strobes(r)])
                /\ tohost' = IF r.word = ToHost THEN Append(tohost, merged)
                             ELSE tohost

BusClock ==
  /\ verdict = "running" /\ memwr = << >> /\ tohost = << >>
  /\ LsuEdge
  /\ \/ mode = "stalls" /\ DriverEdge
     \/ mode = "fixed" /\ ResponderEdge
  /\ Monitor
  /\ UNCHANGED <<mode, sbmem, verdict>>

----------------------------------------------------------------------------
(* process_mem_write of one transaction. *)
Written(m, t) == [m EXCEPT ![t.word] = Merge(@, t.data, t.strobes)]
DrainNothing(m, q) == m   \* mutant: what is still queued is forgotten
Drain(m, q) ==
  LET d[i \in 0..Len(q)] == IF i = 0 THEN m ELSE Written(d[i - 1], q[i]) IN d[Len(q)]

(* collect_mem_writes takes one transaction. *)
Collect ==
  /\ verdict = "running" /\ memwr # << >>
  /\ sbmem' = Written(sbmem, Head(memwr)) /\ memwr' = Tail(memwr)
  /\ UNCHANGED <<mode, lsu, driver, ready, rdata, mem, shadow, tohost, verdict,
                 bytes, wrong>>

(* watch_tohost takes one value: an even one is ignored; an odd one drains *)
(* the writes that are still queued and ends the test.                     *)
One == [i \in Lane |-> IF i = 0 THEN 1 ELSE 0]
Watch ==
  /\ verdict = "running" /\ tohost # << >>
  /\ tohost' = Tail(tohost)
  /\ IF Head(tohost)[0] % 2 = 0
     THEN UNCHANGED <<memwr, sbmem, verdict>>
     ELSE /\ sbmem' = Drain(sbmem, memwr) /\ memwr' = << >>
          /\ verdict' = IF Head(tohost) = One THEN "pass" ELSE "fail"
  /\ UNCHANGED <<mode, lsu, driver, ready, rdata, mem, shadow, bytes, wrong>>

(* The watchdog counts clock cycles; how many is left open.                *)
Watchdog ==
  /\ verdict = "running" /\ memwr = << >> /\ tohost = << >>
  /\ verdict' = "timeout"
  /\ UNCHANGED <<mode, lsu, driver, ready, rdata, mem, shadow, memwr, tohost,
                 sbmem, bytes, wrong>>

DataNext == BusClock \/ Collect \/ Watch \/ Watchdog
DataSpec == DataInit /\ [][DataNext]_dvars
DataFairness == WF_dvars(BusClock) /\ WF_dvars(Collect) /\ WF_dvars(Watch)

----------------------------------------------------------------------------
(* Whatever the latency, size, offset and neighbouring accesses, a load    *)
(* returns what the program's earlier stores left at its address, and when *)
(* the bus is quiet every store has reached memory exactly once.           *)
LoadsSeeStores ==
  /\ ~wrong
  /\ lsu = {} => mem = bytes

(* The signature is dumped from the scoreboard's memory: when the test     *)
(* ends at tohost, every store that the program made is in it.             *)
SignatureComplete == verdict \in {"pass", "fail"} => sbmem = bytes

(* The verdict is the program's own: the test passes only for the store of *)
(* 1, fails for any other odd value, and ignores even values, also when    *)
(* tohost is written in parts.                                             *)
VerdictIsToHost ==
  verdict \in {"pass", "fail"} =>
    /\ Ends(bytes)
    /\ (verdict = "pass") = (bytes[ToHost] = One)

(* Why they hold.  A request waits until it is answered, and only then     *)
(* does the driver stop looking at it.                                     *)
DataTypeOK ==
  /\ mode \in Modes /\ lsu \in {{}} \cup {{r} : r \in Requests}
  /\ driver \in [at : {"idle", "stalling", "answered"}, left : Nat, word : Words,
                 write : BOOLEAN]
  /\ ready \in BOOLEAN /\ rdata \in WordValue
  /\ mem \in [Words -> WordValue] /\ sbmem \in [Words -> WordValue]
  /\ bytes \in [Words -> WordValue] /\ wrong \in BOOLEAN
  /\ shadow \in [DOMAIN shadow -> WordValue] /\ DOMAIN shadow \subseteq Words
  /\ verdict \in {"running", "pass", "fail", "timeout"}
BusInOrder ==
  /\ ready <=> driver.at = "answered"
  /\ ready => lsu # {}
  /\ driver.at = "stalling" =>
       /\ mode = "stalls" /\ driver.left > 0
       /\ \E r \in lsu : driver.word = r.word /\ driver.write = (Strobes(r) # {})

(* An access changes memory, as the program means it, with its answer.     *)
AccessOnce ==
  \A r \in lsu : IF ready THEN mem = bytes /\ (Strobes(r) = {} => rdata = mem[r.word])
                 ELSE bytes = Stored(mem, r)

(* What the monitor and the scoreboard know of memory, with what is queued. *)
MirrorsFollow ==
  /\ Shadowed(ToHost) = mem[ToHost]
  /\ \/ memwr = << >> /\ sbmem = mem
     \/ /\ ready /\ memwr = <<memwr[1]>> /\ mem = Written(sbmem, memwr[1])
        /\ memwr[1] \in [word : Words, data : WordValue, strobes : SUBSET Lane]
  /\ tohost = << >> \/ (ready /\ tohost = <<mem[ToHost]>>)

DataInv == DataTypeOK /\ BusInOrder /\ AccessOnce /\ MirrorsFollow
           /\ LoadsSeeStores /\ SignatureComplete /\ VerdictIsToHost

(* A program that has stored its result to tohost is given its verdict,    *)
(* unless the watchdog runs out.                                           *)
EveryEndReported == (lsu # {} /\ Ends(bytes)) ~> verdict # "running"
NoTimeout == [](verdict # "timeout")
ResultReported == NoTimeout => EveryEndReported
============================================================================
