------------------------------ MODULE Microwire ------------------------------
(***************************************************************************)
(* The NVM of an 82540-family adapter, accessed bit by bit as e1000_nvm.c  *)
(* does it: a Microwire EEPROM behind the pins of register EECD, shared by *)
(* the functions (ports) of the adapter, of which one at a time is granted *)
(* access.                                                                 *)
(*                                                                         *)
(* A routine that drives the pins is one step, made of its accesses to     *)
(* EECD in order: only the function that was granted the EEPROM reaches    *)
(* it.  todo[f] is what is left of the call that function f is in.         *)
(***************************************************************************)
EXTENDS Naturals, Sequences

CONSTANTS
  Functions,         (* the PCI functions that share the EEPROM            *)
  AddressBits,       (* nvm->address_bits: 6 or 8 in the code              *)
  WordBits,          (* bits of a word: 16 in the code                     *)
  MaxTimeouts        (* bounds: how often the driver waits in vain for the *)
                     (* grant, and for a word to be written                *)

ASSUME MicrowireAssumption ==
  /\ AddressBits \in Nat /\ AddressBits > 2
  /\ WordBits \in Nat \ {0} /\ MaxTimeouts \in [grant : Nat, write : Nat]

opcode_bits == 3
CommandBits == opcode_bits + AddressBits

(* The powers of two that the code and the chip shift by.                  *)
Pow2[n \in 0 .. CommandBits + WordBits] == IF n = 0 THEN 1 ELSE 2 * Pow2[n - 1]

WordSize == Pow2[AddressBits]         (* nvm->word_size                    *)
Offsets  == 0 .. WordSize - 1
Values   == 0 .. Pow2[WordBits] - 1

VARIABLES
  words,             (* the contents of the EEPROM                         *)
  chip,              (* its registers                                      *)
  pins,              (* the bits CS, SK and DI of each function's EECD     *)
  req, gnt,          (* the bits REQ and GNT                               *)
  todo,              (* what each call still has to do                     *)
  data,              (* the words the call has read                        *)
  call,              (* the call that is running, or was the last          *)
  status,            (* ret_val of the call                                *)
  timeouts           (* how much of the bounds is used                     *)

busVars == <<words, chip, pins, req, gnt, todo, data, call, status, timeouts>>

-----------------------------------------------------------------------------
(* The EEPROM, and its pins.                                               *)

Pins(cs, sk, di) == [cs |-> cs, sk |-> sk, di |-> di]

Bit(x, i) == (x \div Pow2[i]) % 2

(* count: the bits since the start bit, which make up opcode, address and  *)
(* word; out: how many bits of word are still to be shifted out; do: what  *)
(* DO shows; busy: the write that is being programmed.                     *)
NewChip == [count |-> 0, opcode |-> 0, address |-> 0, word |-> 0, out |-> 0,
            do |-> 1, enabled |-> FALSE, busy |-> <<>>]

(* One more bit of a command.                                              *)
Gathered(c, di) ==
  [c EXCEPT !.count = @ + 1,
            !.opcode  = IF c.count < opcode_bits THEN 2 * @ + di ELSE @,
            !.address = IF c.count >= opcode_bits /\ c.count < CommandBits THEN 2 * @ + di ELSE @,
            !.word    = IF c.count >= CommandBits THEN 2 * @ + di ELSE @]

(* The address is complete.  READ shows a 0 before the data; 00 with 11 or *)
(* 00 in the first bits of the address enables or disables writes.         *)
Decoded(c) ==
  CASE c.opcode = 6 -> [c EXCEPT !.do = 0, !.out = WordBits, !.word = words[c.address]]
    [] c.opcode = 4 /\ c.address >= 3 * Pow2[AddressBits - 2] -> [c EXCEPT !.enabled = TRUE]
    [] c.opcode = 4 /\ c.address < Pow2[AddressBits - 2] -> [c EXCEPT !.enabled = FALSE]
    [] OTHER -> c

(* A rising clock with the chip selected.  A command starts with a 1.      *)
Clocked(c, di) ==
  IF c.out > 0 THEN [c EXCEPT !.do = Bit(c.word, c.out - 1), !.out = @ - 1]
  ELSE IF c.count = 0 /\ di = 0 THEN c
  ELSE LET d == Gathered(c, di) IN IF d.count = CommandBits THEN Decoded(d) ELSE d

(* The chip is deselected: a complete WRITE begins to be programmed.       *)
IsWrite(c) == c.count = CommandBits + WordBits /\ c.opcode = 5 /\ c.enabled
Deselected(c) ==
  LET busy == IF IsWrite(c) THEN <<c.address, c.word>> ELSE c.busy
  IN [NewChip EXCEPT !.do = IF busy = <<>> THEN 1 ELSE 0, !.enabled = c.enabled, !.busy = busy]

(* What a change of the pins does to it; while busy it ignores the clock.  *)
Seen(c, old, new) ==
  IF old.cs = 1 /\ new.cs = 0 THEN Deselected(c)
  ELSE IF new.cs = 1 /\ old.sk = 0 /\ new.sk = 1 /\ c.busy = <<>> THEN Clocked(c, new.di)
  ELSE c

-----------------------------------------------------------------------------
(* The routines of e1000_nvm.c that drive the pins.  at: the chip, the     *)
(* pins and the word that is being shifted in.                             *)

At(c, p, n) == [chip |-> c, pins |-> p, data |-> n]
Write(at, new)      == At(Seen(at.chip, at.pins, new), new, at.data)
write_cs(at, bit)   == Write(at, Pins(bit, at.pins.sk, at.pins.di))
write_sk(at, bit)   == Write(at, Pins(at.pins.cs, bit, at.pins.di))
write_di(at, bit)   == Write(at, Pins(at.pins.cs, at.pins.sk, bit))
read_do(at)         == At(at.chip, at.pins, 2 * at.data + at.chip.do)

raise_eec_clk(at)   == write_sk(at, 1)
lower_eec_clk(at)   == write_sk(at, 0)

shift_out_eec_bits(at, value, count) ==
  LET s[i \in 0 .. count] ==
        IF i = 0 THEN at
        ELSE lower_eec_clk(raise_eec_clk(write_di(s[i - 1], Bit(value, count - i))))
  IN write_di(s[count], 0)

(* Mutant: DO is read before the clock is raised.                          *)
shift_in_early(at, count) ==
  LET s[i \in 0 .. count] ==
        IF i = 0 THEN at ELSE lower_eec_clk(raise_eec_clk(read_do(s[i - 1])))
  IN s[count]

shift_in_eec_bits(at, count) ==
  LET s[i \in 0 .. count] ==
        IF i = 0 THEN at ELSE lower_eec_clk(read_do(raise_eec_clk(s[i - 1])))
  IN s[count]

standby_nvm(at) ==
  lower_eec_clk(write_cs(raise_eec_clk(Write(at, Pins(0, 0, at.pins.di))), 1))
stop_nvm(at) ==
  lower_eec_clk(raise_eec_clk(Write(at, Pins(0, at.pins.sk, 0))))
ready_nvm_eeprom(at) == write_cs(Write(at, Pins(at.pins.cs, 0, 0)), 1)

(* A call is a sequence of routines, with the value and number of bits.    *)
Routine(name, value, count) == [name |-> name, value |-> value, count |-> count]
Plain(name)      == Routine(name, 0, 0)
Out(value, bits) == Routine("shift_out", value, bits)
In               == Routine("shift_in", 0, WordBits)
Acquire == <<Plain("acquire"), Plain("grant")>>
Stop    == <<Plain("stop"), Plain("release")>>

(* The routines for the last k of n words, and what follows them.          *)
Rest(block, n, last) ==
  LET rest[k \in 0 .. n] == IF k = 0 THEN last ELSE block[n - k + 1] \o rest[k - 1]
  IN rest

reads(offset, n) ==
  Rest([i \in 1 .. n |-> <<Out(6, opcode_bits), Out(offset + i - 1, AddressBits),
                           In, Plain("standby")>>], n, Stop)
read_nvm_microwire(offset, n) == Acquire \o <<Plain("ready")>> \o reads(offset, n)[n]

(* EWEN and EWDS have two bits of the address in their opcode.             *)
ewen == <<Out(19, opcode_bits + 2), Out(0, AddressBits - 2)>>
ewds == <<Out(16, opcode_bits + 2), Out(0, AddressBits - 2)>>

writes(offset, vals) ==
  Rest([i \in 1 .. Len(vals) |->
          <<Out(5, opcode_bits), Out(offset + i - 1, AddressBits), Out(vals[i], WordBits),
            Plain("standby"), Plain("written"), Plain("standby")>>],
       Len(vals), ewds \o Stop)
write_nvm_microwire(offset, vals) ==
  Acquire \o <<Plain("ready")>> \o ewen \o <<Plain("standby")>> \o writes(offset, vals)[Len(vals)]

(* A routine that only drives the pins.                                    *)
Driven(at, r) ==
  CASE r.name = "shift_out" -> shift_out_eec_bits(at, r.value, r.count)
    [] r.name = "shift_in"  -> shift_in_eec_bits(at, r.count)
    [] r.name = "standby"   -> standby_nvm(at)
    [] r.name = "stop"      -> stop_nvm(at)
    [] r.name = "ready"     -> ready_nvm_eeprom(at)

-----------------------------------------------------------------------------
BusInit(contents) ==
  /\ words = contents /\ chip = NewChip
  /\ pins = [f \in Functions |-> Pins(0, 0, 0)]
  /\ req = [f \in Functions |-> FALSE] /\ gnt = [f \in Functions |-> FALSE]
  /\ todo = [f \in Functions |-> <<>>]
  /\ data = [f \in Functions |-> <<>>] /\ status = [f \in Functions |-> "ok"]
  /\ call = [f \in Functions |-> [op |-> "none", offset |-> 0, vals |-> <<>>, n |-> 0]]
  /\ timeouts = [grant |-> 0, write |-> 0]

(* A call begins; parameters out of bounds are refused.                    *)
InBounds(offset, n) == offset < WordSize /\ n <= WordSize - offset /\ n > 0
Begin(f, c, program) ==
  /\ call' = [call EXCEPT ![f] = c]
  /\ data' = [data EXCEPT ![f] = <<>>]
  /\ todo' = [todo EXCEPT ![f] = IF InBounds(c.offset, c.n) THEN program ELSE <<>>]
  /\ status' = [status EXCEPT ![f] = IF InBounds(c.offset, c.n) THEN "ok" ELSE "error"]
  /\ UNCHANGED <<words, chip, pins, req, gnt, timeouts>>
BeginRead(f, offset, n) ==
  Begin(f, [op |-> "read", offset |-> offset, vals |-> <<>>, n |-> n],
        read_nvm_microwire(offset, n))
BeginWrite(f, offset, vals) ==
  Begin(f, [op |-> "write", offset |-> offset, vals |-> vals, n |-> Len(vals)],
        write_nvm_microwire(offset, vals))

(* The adapter grants the EEPROM to one function that asks for it.         *)
Grant(f) ==
  /\ req[f] /\ \A g \in Functions : ~gnt[g]
  /\ gnt' = [gnt EXCEPT ![f] = TRUE]
  /\ UNCHANGED <<words, chip, pins, req, todo, data, call, status, timeouts>>

(* A write is programmed by the chip at its own pace.                      *)
Programmed ==
  /\ chip.busy # <<>>
  /\ words' = [words EXCEPT ![chip.busy[1]] = chip.busy[2]]
  /\ chip' = [chip EXCEPT !.busy = <<>>, !.do = 1]
  /\ UNCHANGED <<pins, req, gnt, todo, data, call, status, timeouts>>

-----------------------------------------------------------------------------
(* One routine of the call of function f.                                  *)
NextIs(f, name) == todo[f] # <<>> /\ Head(todo[f]).name = name
Consume(f)      == todo' = [todo EXCEPT ![f] = Tail(@)]

DrivePins(f) ==
  /\ \E r \in {"shift_out", "shift_in", "standby", "stop", "ready"} : NextIs(f, r)
  /\ Consume(f)
  /\ LET end == Driven(At(chip, pins[f], 0), Head(todo[f]))
     IN /\ chip' = end.chip /\ pins' = [pins EXCEPT ![f] = end.pins]
        /\ data' = IF NextIs(f, "shift_in") THEN [data EXCEPT ![f] = Append(@, end.data)] ELSE data
  /\ UNCHANGED <<words, req, gnt, call, status, timeouts>>

Request(f) ==
  /\ NextIs(f, "acquire") /\ Consume(f)
  /\ req' = [req EXCEPT ![f] = TRUE]
  /\ UNCHANGED <<words, chip, pins, gnt, data, call, status, timeouts>>

Timeout(kind) ==
  timeouts[kind] < MaxTimeouts[kind] /\ timeouts' = [timeouts EXCEPT ![kind] = @ + 1]

(* The grant is seen, or the driver has waited long enough: the last look  *)
(* is not acted on, so it may give up what was just granted.               *)
Granted(f) ==
  /\ NextIs(f, "grant") /\ gnt[f] /\ Consume(f)
  /\ UNCHANGED <<words, chip, pins, req, gnt, data, call, status, timeouts>>
GrantTimeout(f) ==
  /\ NextIs(f, "grant") /\ Timeout("grant") /\ todo' = [todo EXCEPT ![f] = <<>>]
  /\ req' = [req EXCEPT ![f] = FALSE] /\ gnt' = [gnt EXCEPT ![f] = FALSE]
  /\ status' = [status EXCEPT ![f] = "error"]
  /\ UNCHANGED <<words, chip, pins, data, call>>

(* DO tells that the word was written, or 200 looks did not see it.        *)
Written(f) ==
  /\ NextIs(f, "written") /\ chip.do = 1 /\ Consume(f)
  /\ UNCHANGED <<words, chip, pins, req, gnt, data, call, status, timeouts>>
WriteTimeout(f) ==
  /\ NextIs(f, "written") /\ chip.do = 0
  /\ Timeout("write")
  /\ todo' = [todo EXCEPT ![f] = Stop]
  /\ status' = [status EXCEPT ![f] = "error"]
  /\ UNCHANGED <<words, chip, pins, req, gnt, data, call>>

Release(f) ==
  /\ NextIs(f, "release") /\ Consume(f)
  /\ req' = [req EXCEPT ![f] = FALSE] /\ gnt' = [gnt EXCEPT ![f] = FALSE]
  /\ UNCHANGED <<words, chip, pins, data, call, status, timeouts>>

BusStep(f) ==
  \/ DrivePins(f) \/ Request(f)
  \/ Granted(f) \/ GrantTimeout(f) \/ Written(f) \/ WriteTimeout(f) \/ Release(f)

-----------------------------------------------------------------------------
(* Properties.                                                             *)

(* The types of the variables of the bus.                                  *)
BusTypeOK ==
  /\ words \in [Offsets -> Values]
  /\ chip.do \in 0 .. 1 /\ chip.enabled \in BOOLEAN
  /\ chip.count <= CommandBits + WordBits /\ chip.out <= WordBits
  /\ chip.opcode \in 0 .. 7 /\ chip.address \in Offsets /\ chip.word \in Values
  /\ chip.busy = <<>> \/ chip.busy \in Offsets \X Values
  /\ pins \in [Functions -> [cs : 0 .. 1, sk : 0 .. 1, di : 0 .. 1]]
  /\ req \in [Functions -> BOOLEAN] /\ gnt \in [Functions -> BOOLEAN]
  /\ status \in [Functions -> {"ok", "error"}] /\ timeouts \in [grant : Nat, write : Nat]

(* A call that is about to give the EEPROM back and to report success has  *)
(* moved exactly its words: what it read is what the EEPROM holds there,   *)
(* what it wrote is there, and writes are disabled again, although the     *)
(* other function may have used the EEPROM, or timed out, just before      *)
(* (e1000_nvm.c:502-546, 687-756).  Only a write that was given up may     *)
(* spoil it, as the chip is not asked again whether it is ready.           *)
TransfersAreTrue ==
  \A f \in Functions :
    NextIs(f, "release") /\ status[f] = "ok" /\ timeouts.write = 0 =>
      LET c == call[f] vals == IF c.op = "read" THEN data[f] ELSE c.vals IN
      /\ vals = [i \in 1 .. c.n |-> words[c.offset + i - 1]]
      /\ ~chip.enabled /\ chip.busy = <<>> /\ pins[f].cs = 0
=============================================================================
