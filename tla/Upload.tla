------------------------------- MODULE Upload -------------------------------
(***************************************************************************)
(* Loading a program into the board: loadprog.py at one end of the serial  *)
(* line, prog_loader.sv at the other, an operator who presses reset, and a *)
(* USB bridge that may lose or change a byte on its way to the board.      *)
(*                                                                         *)
(* Timeouts are left open: one may run out whenever its timer runs.  The   *)
(* host's 15 s deadlines are far longer than the board's half second and   *)
(* second; all that is used of this is that they are separate events.      *)
(***************************************************************************)
EXTENDS Integers, Sequences, SequencesExt, FiniteSetsExt

CONSTANTS
  Base, Width,   (* 256 and 4: a field is Width bytes, least significant first *)
  Magic,         (* "DHRV"                                                  *)
  Capacity,      (* the longest image that the memories hold                *)
  Images,        (* what the host may be asked to upload                    *)
  BakedByte,     (* the contents of the configured memory                   *)
  Chatter,       (* what programs print                                     *)
  Line,          (* bound: bytes in flight towards the board                *)
  MaxFaults, MaxResets, MaxAttempts    (* bounds                             *)

Octet == 0..(Base - 1)

Power(k) ==
  LET p[n \in 0..k] == IF n = 0 THEN 1 ELSE Base * p[n - 1]
  IN  p[k]

(* A field holds one of Values numbers; its last byte is the most          *)
(* significant.  Sums are taken modulo Values.                             *)
Values == Power(Width)
Field(n) == [i \in 1..Width |-> (n \div Power(i - 1)) % Base]
Number(f) ==
  LET last[n \in 0..Len(f)] == IF n = 0 THEN 0 ELSE f[Len(f) - n + 1] + Base * last[n - 1]
  IN  last[Len(f)]
SumOf(bytes) ==
  LET total[n \in 0..Len(bytes)] == IF n = 0 THEN 0 ELSE total[n - 1] + bytes[n]
  IN  total[Len(bytes)] % Values

ASSUME UploadAssumption ==
  /\ Base \in Nat /\ Base > 1 /\ Width \in Nat \ {0}
  /\ Magic \in Seq(Octet) /\ Magic # << >> /\ \A i \in 2..Len(Magic) : Magic[i] # Magic[1]
  /\ Capacity \in 1..(Values - 1)
  /\ \A img \in Images : img \in Seq(Octet) /\ Len(img) \in 1..Capacity
  /\ BakedByte \in Octet

VARIABLES
  host,       (* at: where upload is; img; sent: bytes of the frame written  *)
  wire, back, (* bytes in flight to the board, and to the host               *)
  state, pos, field, length, offset, sum, good,   (* prog_loader's registers *)
  valid,      (* cpu_top's image_valid                                       *)
  mem,        (* program memory                                              *)
  taken,      (* history: the payload written there last, as far as it came  *)
  frame,      (* history: the length and the checksum that came with it, when *)
              (* the loader found them good                                  *)
  faults, resets, attempts,    (* counters of the bounds                     *)
  clean,      (* history: nothing has disturbed this upload                  *)
  damaged     (* history: nothing but the line has, at one byte after length *)

hvars == <<host, attempts>>
lvars == <<state, pos, field, length, offset, sum, good>>
ivars == <<mem, taken, frame>>
uvars == <<hvars, lvars, wire, back, valid, ivars, faults, resets, clean, damaged>>

Frame(img) == Magic \o Field(Len(img)) \o img \o Field(SumOf(img))

UploadInit ==
  /\ host = [at |-> "off", img |-> << >>, sent |-> 0]
  /\ wire = << >> /\ back = << >>
  /\ state = "HELLO" /\ pos = 0 /\ field = << >> /\ length = 0 /\ offset = 0
  /\ sum = 0 /\ good = FALSE
  /\ valid = TRUE /\ mem = [a \in 0..(Capacity - 1) |-> BakedByte]
  /\ taken = << >> /\ frame = <<0, 0>>
  /\ faults = 0 /\ resets = 0 /\ attempts = 0
  /\ clean = FALSE /\ damaged = FALSE

----------------------------------------------------------------------------
(* The host: main opens the port, forgets old input, and uploads.          *)
Open(img) ==
  /\ host.at \in {"off", "done", "rejected", "gave_up"} /\ attempts < MaxAttempts
  /\ host' = [at |-> "greet", img |-> img, sent |-> 0]
  /\ attempts' = attempts + 1 /\ back' = << >>
  /\ clean' = FALSE /\ damaged' = FALSE
  /\ UNCHANGED <<lvars, wire, valid, ivars, faults, resets>>

(* Each loop reads one byte at a time and skips what it does not know.     *)
Read ==
  /\ host.at \in {"greet", "ack"} /\ back # << >>
  /\ back' = Tail(back)
  /\ host' = [host EXCEPT !.at =
       IF @ = "greet" THEN IF Head(back) = "R" THEN "send" ELSE @
       ELSE IF Head(back) = "K" THEN "done"
       ELSE IF Head(back) = "E" THEN "rejected" ELSE @]
  /\ UNCHANGED <<attempts, lvars, wire, valid, ivars, faults, resets, clean, damaged>>

(* One byte of the frame leaves the host, and the bridge may lose it or    *)
(* change it.                                                              *)
Sent == host' = [host EXCEPT !.sent = @ + 1,
                             !.at = IF host.sent + 1 = Len(Frame(host.img)) THEN "ack" ELSE @]
Write ==
  /\ host.at = "send" /\ Len(wire) < Line
  /\ Sent /\ wire' = Append(wire, Frame(host.img)[host.sent + 1])
  /\ UNCHANGED <<attempts, lvars, back, valid, ivars, faults, resets, clean, damaged>>
Disturb ==
  /\ host.at = "send" /\ Len(wire) < Line
  /\ faults < MaxFaults /\ faults' = faults + 1
  /\ clean' = FALSE /\ damaged' = (clean /\ host.sent >= Len(Magic) + Width)
  /\ Sent
  /\ \/ UNCHANGED wire
     \/ \E b \in Octet \ {Frame(host.img)[host.sent + 1]} : wire' = Append(wire, b)
  /\ UNCHANGED <<attempts, lvars, back, valid, ivars, resets>>

(* A deadline passes, or a serial write comes up short.                    *)
GiveUp ==
  /\ host.at \in {"greet", "send", "ack"}
  /\ host' = [host EXCEPT !.at = "gave_up"]
  /\ clean' = FALSE
  /\ UNCHANGED <<attempts, lvars, wire, back, valid, ivars, faults, resets, damaged>>

----------------------------------------------------------------------------
(* Reset: the loader starts over and the UART forgets what it has received *)
(* or was sending; the memory and its validity remain.  From here on the   *)
(* upload that waits for the board's greeting is undisturbed, unless what  *)
(* is still on the line is itself taken as a header.                       *)
HeaderIn(w) == \E i \in 0..(Len(w) - Len(Magic)) :
                 \A j \in DOMAIN Magic : w[i + j] = Magic[j]
Reset ==
  /\ resets < MaxResets /\ resets' = resets + 1
  /\ state' = "HELLO" /\ pos' = 0 /\ field' = << >> /\ length' = 0 /\ offset' = 0
  /\ sum' = 0 /\ good' = FALSE
  /\ \E k \in 0..Len(wire) : wire' = SubSeq(wire, k + 1, Len(wire))
  /\ clean' = (host.at = "greet" /\ back = << >> /\ ~HeaderIn(wire'))
  /\ damaged' = FALSE
  /\ UNCHANGED <<hvars, back, valid, ivars, faults>>

(* HELLO and ACK hand one byte to the transmitter when it is free.         *)
Hello ==
  /\ state = "HELLO"
  /\ state' = "MAGIC" /\ back' = Append(back, "R")
  /\ UNCHANGED <<hvars, pos, field, length, offset, sum, good, wire, valid, ivars,
                 faults, resets, clean, damaged>>
Acknowledge ==
  /\ state = "ACK"
  /\ state' = "DRAIN" /\ back' = Append(back, IF good THEN "K" ELSE "E")
  /\ UNCHANGED <<hvars, pos, field, length, offset, sum, good, wire, valid, ivars,
                 faults, resets, clean, damaged>>
Drain ==
  /\ state = "DRAIN"
  /\ state' = IF good THEN "RUN" ELSE "FAILED"
  /\ valid' = (valid \/ good)
  /\ UNCHANGED <<hvars, pos, field, length, offset, sum, good, wire, back, ivars,
                 faults, resets, clean, damaged>>

(* MAGIC: match the header, one byte at most in a cycle.  In the cycle in  *)
(* which the boot timer runs out it decides, whatever that cycle received. *)
Matched(b) ==
  IF b = Magic[pos + 1] THEN pos + 1 ELSE IF b = Magic[1] THEN 1 ELSE 0
BootTimeoutBlind == state' = "RUN" /\ UNCHANGED good   \* mutant: whatever is there runs
BootTimeout ==
  IF valid THEN state' = "RUN" /\ UNCHANGED good
  ELSE state' = "ACK" /\ good' = FALSE
Header ==
  /\ state = "MAGIC" /\ wire # << >>
  /\ wire' = Tail(wire)
  /\ LET p == Matched(Head(wire))
     IN  /\ pos' = p % Len(Magic)
         /\ \/ /\ state' = IF p = Len(Magic) THEN "LENGTH" ELSE state
               /\ UNCHANGED <<good, clean, damaged>>
            \/ BootTimeout /\ clean' = FALSE /\ damaged' = FALSE
  /\ UNCHANGED <<hvars, field, length, offset, sum, back, valid, ivars, faults, resets>>
NoHeader ==
  /\ state = "MAGIC" /\ BootTimeout /\ clean' = FALSE /\ damaged' = FALSE
  /\ UNCHANGED <<hvars, pos, field, length, offset, sum, wire, back, valid, ivars,
                 faults, resets>>

(* LENGTH, PAYLOAD and CHECKSUM take the bytes of a recognized frame.      *)
Take(s) == state = s /\ wire # << >> /\ wire' = Tail(wire)
AcceptsBelowCapacity(n) == n > 0 /\ n < Capacity   \* mutant: the last byte is refused
Accepts(n) == n > 0 /\ n <= Capacity
Length ==
  /\ Take("LENGTH")
  /\ LET f == Append(field, Head(wire))
     IN  IF Len(f) < Width
         THEN field' = f /\ UNCHANGED <<state, length, good>>
         ELSE /\ field' = << >> /\ length' = Number(f)
              /\ state' = IF Accepts(Number(f)) THEN "PAYLOAD" ELSE "ACK"
              /\ good' = FALSE
  /\ UNCHANGED <<hvars, pos, offset, sum, back, valid, ivars, faults, resets,
                 clean, damaged>>
LastByteLate == offset = length   \* mutant: one byte too many
LastByte == offset = length - 1
Payload ==
  /\ Take("PAYLOAD")
  /\ mem' = [mem EXCEPT ![offset] = Head(wire)] /\ valid' = FALSE
  /\ taken' = IF offset = 0 THEN <<Head(wire)>> ELSE Append(taken, Head(wire))
  /\ offset' = offset + 1
  /\ sum' = (sum + Head(wire)) % Values
  /\ state' = IF LastByte THEN "CHECKSUM" ELSE state
  /\ UNCHANGED <<hvars, pos, field, length, good, back, frame, faults, resets,
                 clean, damaged>>
GoodIfAnySum(f) == TRUE   \* mutant: the checksum is received and not compared
GoodSum(f) == Number(f) = sum
Checksum ==
  /\ Take("CHECKSUM")
  /\ LET f == Append(field, Head(wire))
     IN  IF Len(f) < Width
         THEN field' = f /\ UNCHANGED <<state, good, frame>>
         ELSE /\ field' = << >> /\ state' = "ACK" /\ good' = GoodSum(f)
              /\ frame' = IF GoodSum(f) THEN <<length, Number(f)>> ELSE frame
  /\ UNCHANGED <<hvars, pos, length, offset, sum, back, valid, mem, taken,
                 faults, resets, clean, damaged>>
SilenceAfterLength ==   \* mutant: the length is waited for without a timeout
  /\ state \in {"PAYLOAD", "CHECKSUM"}
  /\ state' = "ACK" /\ good' = FALSE /\ clean' = FALSE
  /\ UNCHANGED <<hvars, pos, field, length, offset, sum, wire, back, valid, ivars,
                 faults, resets, damaged>>
Silence ==
  /\ state \in {"LENGTH", "PAYLOAD", "CHECKSUM"}
  /\ state' = "ACK" /\ good' = FALSE /\ clean' = FALSE
  /\ UNCHANGED <<hvars, pos, field, length, offset, sum, wire, back, valid, ivars,
                 faults, resets, damaged>>

(* Nobody takes what arrives afterwards as a frame; a program may print.   *)
Ignore ==
  /\ state \in {"RUN", "FAILED"} /\ wire # << >>
  /\ wire' = Tail(wire)
  /\ UNCHANGED <<hvars, lvars, back, valid, ivars, faults, resets, clean, damaged>>
PrintOut ==
  /\ state = "RUN" /\ back = << >>
  /\ \E c \in Chatter : back' = <<c>>
  /\ UNCHANGED <<hvars, lvars, wire, valid, ivars, faults, resets, clean, damaged>>

Loader == Hello \/ Acknowledge \/ Drain \/ Header \/ NoHeader \/ Length \/ Payload
            \/ Checksum \/ Silence
UploadNext ==
  \/ \E img \in Images : Open(img)
  \/ Read \/ Write \/ Disturb \/ GiveUp \/ Reset \/ Loader \/ Ignore \/ PrintOut
UploadSpec == UploadInit /\ [][UploadNext]_uvars /\ WF_uvars(Loader)

----------------------------------------------------------------------------
UploadTypeOK ==
  /\ host \in [at : {"off", "greet", "send", "ack", "done", "rejected", "gave_up"},
               img : Seq(Octet), sent : Nat]
  /\ wire \in Seq(Octet)
  /\ state \in {"HELLO", "MAGIC", "LENGTH", "PAYLOAD", "CHECKSUM", "ACK", "DRAIN",
                "RUN", "FAILED"}
  /\ pos \in 0..(Len(Magic) - 1) /\ field \in Seq(Octet) /\ Len(field) < Width
  /\ length \in Nat /\ offset \in 0..Capacity /\ sum \in 0..(Values - 1)
  /\ good \in BOOLEAN /\ valid \in BOOLEAN
  /\ mem \in [0..(Capacity - 1) -> Octet]
  /\ taken \in Seq(Octet) /\ Len(taken) <= Capacity

Holds(img) == \A i \in 1..Len(img) : mem[i - 1] = img[i]
Baked == mem = [a \in 0..(Capacity - 1) |-> BakedByte]

(* "Never boot a partial image" (fpga/rtl/prog_loader.sv:3), whatever comes *)
(* over the line: the core runs the configured memory, or the payload of   *)
(* one frame, as long as the frame's length field said and with the sum    *)
(* that the frame's checksum said, from the first byte of memory on.       *)
RunsCheckedImage ==
  state = "RUN" =>
    /\ Holds(taken) /\ frame = <<Len(taken), SumOf(taken)>>
    /\ taken = << >> => Baked

(* K means that the board has accepted what was sent: when upload returns, *)
(* program memory holds the image.                                         *)
DoneMeansLoaded == host.at = "done" => Holds(host.img)

(* An upload that nothing disturbs, of an image up to the full capacity,   *)
(* is not rejected, whatever an interrupted upload before it has left, and *)
(* when it returns the image is in memory, whatever programs print.        *)
CleanIsAccepted == clean => /\ host.at # "rejected"
                            /\ host.at = "done" => Holds(host.img)

(* An upload of which one byte of payload or checksum is lost or changed   *)
(* never returns as if it had been accepted, however the loader's timeouts *)
(* of the frame fall: no sum is right for one wrong byte, and a frame that *)
(* is a byte short never ends.                                             *)
DamageIsRefused == damaged => host.at # "done"

(* The inductive invariant behind RunsCheckedImage.  What was taken is in  *)
(* memory, in every state; while the payload comes, offset and sum are its *)
(* length and sum; a good loader has just taken the frame that it          *)
(* describes; and a valid memory is still as that frame left it.           *)
Described == frame = <<Len(taken), SumOf(taken)>> /\ (taken = << >> => Baked)
TakingPayload ==
  /\ state \in {"HELLO", "MAGIC", "LENGTH"} => offset = 0 /\ sum = 0
  /\ state = "PAYLOAD" => /\ length \in 1..Capacity /\ offset < length
                          /\ offset = 0 => sum = 0
                          /\ offset > 0 => offset = Len(taken) /\ sum = SumOf(taken)
  /\ state = "CHECKSUM" => /\ length = Len(taken) /\ taken # << >> /\ sum = SumOf(taken)
HostInFrame ==
  /\ host.at = "greet" => host.sent = 0
  /\ host.at = "send" => host.sent < Len(Frame(host.img))
  /\ host.at \in {"greet", "send"} => host.img \in Images
UploadInv ==
  /\ UploadTypeOK /\ HostInFrame /\ TakingPayload
  /\ Holds(taken)
  /\ good => state \in {"ACK", "DRAIN", "RUN"}
  /\ state = "RUN" => valid
  /\ valid \/ good => Described

(* The inductive invariant behind CleanIsAccepted.  Of the frame that the  *)
(* host is sending the loader has taken the first n bytes, and the line    *)
(* carries k bytes that were left on it and then the bytes sent since.     *)
Arriving(n, k) ==
  /\ n <= host.sent /\ Len(wire) = k + host.sent - n
  /\ \A i \in 1..(host.sent - n) : wire[k + i] = Frame(host.img)[n + i]
(* The k bytes hold no header, nor do they complete the one begun.         *)
NoHeaderLeft(k) ==
  /\ \A i \in 0..(k - Len(Magic)) : \E j \in DOMAIN Magic : wire[i + j] # Magic[j]
  /\ k >= Len(Magic) - pos => \E j \in (pos + 1)..Len(Magic) : wire[j - pos] # Magic[j]
FieldBegins(n) == \A i \in 1..Len(field) : field[i] = Field(n)[i]
Taken ==
  /\ state \in {"HELLO", "MAGIC"} =>
       Arriving(pos, 0) \/ \E k \in 0..Len(wire) : Arriving(0, k) /\ NoHeaderLeft(k)
  /\ state = "LENGTH" => /\ Arriving(Len(Magic) + Len(field), 0)
                         /\ FieldBegins(Len(host.img))
  /\ state = "PAYLOAD" => /\ Arriving(Len(Magic) + Width + offset, 0)
                          /\ length = Len(host.img)
                          /\ offset > 0 => \A i \in 1..offset : taken[i] = host.img[i]
  /\ state = "CHECKSUM" => /\ Arriving(Len(Magic) + Width + Len(host.img) + Len(field), 0)
                           /\ FieldBegins(SumOf(host.img)) /\ taken = host.img
  /\ state \in {"ACK", "DRAIN", "RUN"} => good /\ taken = host.img
  /\ state \in {"HELLO", "MAGIC", "PAYLOAD"} => field = << >>
(* Who waits for whom.                                                     *)
Turn ==
  /\ host.at \in {"greet", "send", "ack", "done"} /\ state # "FAILED"
  /\ host.at = "greet" => \/ state = "HELLO" /\ pos = 0 /\ back = << >>
                          \/ state = "MAGIC" /\ back = <<"R">>
  /\ host.at \in {"send", "ack"} => \/ state \notin {"HELLO", "DRAIN", "RUN"} /\ back = << >>
                                    \/ state \in {"DRAIN", "RUN"} /\ back = <<"K">>
  /\ host.at = "done" => state \in {"DRAIN", "RUN"}
  /\ state \in {"ACK", "DRAIN", "RUN"} => host.at \in {"ack", "done"}
CleanInv == clean => host.img \in Images /\ Taken /\ Turn

(* The loader always comes to an end: the board runs or waits for a reset. *)
LoaderEnds == state = "HELLO" ~> state \in {"RUN", "FAILED"}
============================================================================
