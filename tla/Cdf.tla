-------------------------------- MODULE Cdf ---------------------------------
(***************************************************************************)
(* The frequency tables of det-coder/src/cdf.rs.  A table is a sequence of *)
(* frequencies; a symbol is its index, counted from 1 here and from 0 in   *)
(* the code.                                                               *)
(***************************************************************************)
EXTENDS Integers, Sequences

CONSTANTS
  TotalLimit,   \* totals are below this (2^31)
  SymbolLimit   \* MAX_SYMBOLS, the most symbols of a table (2^18)

ASSUME CdfAssumption == TotalLimit \in Nat /\ SymbolLimit \in Nat

-----------------------------------------------------------------------------
(***************************************************************************)
(* The full table.  Starts is the running total of the building loop: its  *)
(* entry i + 1 is the sum of the first i frequencies.                      *)
(***************************************************************************)
Starts(freq) ==
  LET start[i \in 1 .. Len(freq) + 1] ==
        IF i = 1 THEN 0 ELSE start[i - 1] + freq[i - 1]
  IN start

TableOf(freq) ==
  [freq  |-> freq,
   cum   |-> SubSeq(Starts(freq), 1, Len(freq)),
   total |-> Starts(freq)[Len(freq) + 1]]

\* Cdf::validate
ValidTable(table) ==
  /\ table.freq # <<>> /\ Len(table.freq) = Len(table.cum)
  /\ Len(table.freq) <= SymbolLimit
  /\ table.total > 0 /\ table.total < TotalLimit
  /\ \A i \in DOMAIN table.freq :
       table.freq[i] # 0 /\ table.cum[i] = Starts(table.freq)[i]
  /\ table.total = Starts(table.freq)[Len(table.freq) + 1]

(***************************************************************************)
(* symbol_for_validated: partition_point counts the starts not above the   *)
(* value, and the code takes one off that count to get a 0-based index.    *)
(***************************************************************************)
PartitionPoint(cum, value) ==
  CHOOSE n \in 0 .. Len(cum) :
    /\ \A i \in 1 .. n : cum[i] <= value
    /\ \A i \in n + 1 .. Len(cum) : cum[i] > value

SymbolFor(table, value) ==
  LET n == PartitionPoint(table.cum, value)
  IN IF n = 0 THEN 1 ELSE n

IntervalOf(table, symbol) ==
  [cum |-> table.cum[symbol], freq |-> table.freq[symbol], total |-> table.total]
=============================================================================
