------------------------------- MODULE Rebin -------------------------------
(***************************************************************************)
(* prep_payload_data() of main.c: the histograms of a DAQ, copied bin by   *)
(* bin or averaged over wider bins into the payload.                       *)
(*                                                                         *)
(* A histogram has NumBins 16-bit bins.  The Histo-RAM is read in 32-bit   *)
(* words of two bins, the first in the lower half.  One step of the model  *)
(* produces one bin of the payload.                                        *)
(***************************************************************************)
EXTENDS Integers, Sequences, FiniteSets, Functions

CONSTANTS NumBins,      \* MEM_HISTO_NUM_BINS_GW
          NumHistos,    \* number of histograms
          Tables,       \* for bin_cfg 11 and 12: the limits of the log-scale bins
          RawCfgs,      \* bin_cfg bytes the OBC sends
          Rams          \* contents of the Histo-RAM that are tried, by name

\* Bins of one, in pairs, then bins of an even size: so no bin of the tables
\* starts or ends within a word but the single ones.
ASSUME TablesAssumption ==
    /\ DOMAIN Tables = {11, 12}
    /\ \A c \in {11, 12} :
        LET t == Tables[c] IN
        /\ t \in Seq(Nat) /\ Len(t) > 1
        /\ t[1] = 0 /\ t[Len(t)] = NumBins
        /\ \A j \in 1..(Len(t) - 1) :
            LET size == t[j + 1] - t[j] IN
            /\ size \in 1..255
            /\ IF size = 1 THEN t[j] = j - 1 ELSE size % 2 = 0 /\ t[j] % 2 = 0
ASSUME SizesAssumption ==
    /\ NumBins \in Nat /\ \A c \in 1..6 : NumBins % 2 ^ c = 0
    /\ NumHistos \in Nat \ {0}
ASSUME RawCfgsAssumption == RawCfgs \subseteq Nat
\* A bin of the Histo-RAM is a 16-bit counter.
ASSUME RamsAssumption ==
    \A r \in DOMAIN Rams : \A b \in 0..(NumHistos * NumBins - 1) :
        Rams[r][b] \in Nat /\ Rams[r][b] < 65536

VARIABLES
          ram, bin_cfgs, \* which content the RAM has; bin_cfg of each histogram
          i, j,         \* histogram, and the bin of it that is next
          bin,          \* the C variable bin; it keeps its value between bins
          carry_over,   \* the previous bin ended within a word
          data_idx,     \* the word read next, from the start of the RAM
          send_idx,     \* bytes of the payload written
          emitted       \* history: the bin written last, and what it covers

rebinVars == <<ram, bin_cfgs, i, j, bin, carry_over, data_idx, send_idx, emitted>>

UInt16(n) == n % 65536
Low(k)  == Rams[ram][2 * k]
High(k) == Rams[ram][2 * k + 1]
Total(S) == SumFunctionOnSet(Rams[ram], S)
WordBins(from, to) == (2 * from)..(2 * to - 1)   \* the bins of words from..to-1
Words(from, to) == Total(WordBins(from, to))
NothingYet == [val |-> 0, bins |-> {}]
-----------------------------------------------------------------------------
(* Seeded faults. *)
Single_HighHalf(k) == High(k)

Size_Doubled(c) == 2 ^ (c + 1)

PlainBins_Half == NumBins \div 2
-----------------------------------------------------------------------------
\* DAQ_CONF brings the byte of each histogram into range.
Adjusted(c) == CASE c \in 7..9 -> 6
                 [] c = 10     -> 11
                 [] c > 12     -> 12
                 [] OTHER      -> c

get_num_bins(c) == CASE c = 0        -> NumBins
                     [] c \in 1..6   -> NumBins \div 2 ^ c
                     [] c \in 11..12 -> Len(Tables[c]) - 1
                     [] OTHER        -> 0

\* What msp_expsend_start announces, without the header.
AnnouncedBytes ==
    SumFunction([h \in DOMAIN bin_cfgs |-> 2 * get_num_bins(bin_cfgs[h])])

start_idx == (i * NumBins) \div 2

RebinInit ==
    /\ ram \in DOMAIN Rams
    /\ \E raw \in [0..(NumHistos - 1) -> RawCfgs] :
        bin_cfgs = [h \in 0..(NumHistos - 1) |-> Adjusted(raw[h])]
    /\ i = 0 /\ j = 0
    /\ bin = 0 /\ carry_over = 0
    /\ data_idx = 0
    /\ send_idx = 0
    /\ emitted = NothingYet
-----------------------------------------------------------------------------
Active == i < NumHistos
Cfg == bin_cfgs[i]

Emit(value, bins) ==
    /\ emitted' = [val |-> UInt16(value), bins |-> bins]
    /\ send_idx' = send_idx + 2
    /\ j' = j + 1

\* bin_cfg 0: two bins are copied at a time, here one after the other.
PlainBins == NumBins

Copy ==
    /\ Active /\ Cfg = 0 /\ j < PlainBins
    /\ Emit(IF j % 2 = 0 THEN Low(data_idx) ELSE High(data_idx), {2 * data_idx + (j % 2)})
    /\ data_idx' = data_idx + (j % 2)
    /\ UNCHANGED <<ram, bin_cfgs, i, bin, carry_over>>

\* bin_cfg 1..6: bins of equal size.
Size(c) == 2 ^ c

EqualBin ==
    /\ Active /\ Cfg \in 1..6 /\ j < get_num_bins(Cfg)
    /\ LET words == ((j + 1) * Size(Cfg)) \div 2 - (j * Size(Cfg)) \div 2 IN
        /\ bin' = Words(data_idx, data_idx + words) \div 2 ^ Cfg
        /\ Emit(bin', WordBins(data_idx, data_idx + words))
        /\ data_idx' = data_idx + words
    /\ UNCHANGED <<ram, bin_cfgs, i, carry_over>>

\* bin_cfg 11, 12: limits from a table.
from == Tables[Cfg][j + 1]
to == Tables[Cfg][j + 2]
LogDue == Active /\ Cfg \in 11..12 /\ j < get_num_bins(Cfg)

\* An even number of bins on a word boundary: they are added to bin, which
\* still holds the value of the bin before.
LogEven ==
    /\ LogDue
    /\ carry_over = 0 /\ (to - from) % 2 = 0
    /\ bin' = (bin + Words(start_idx + from \div 2, start_idx + to \div 2))
              \div (to - from)
    /\ data_idx' = start_idx + to \div 2 - 1
    /\ Emit(bin', WordBins(start_idx + from \div 2, start_idx + to \div 2))
    /\ UNCHANGED <<ram, bin_cfgs, i, carry_over>>

Single(k) == Low(k)

LogFirstHalf ==
    /\ LogDue
    /\ carry_over = 0 /\ to - from = 1
    /\ carry_over' = 1
    /\ data_idx' = start_idx + from \div 2
    /\ bin' = Single(data_idx')
    /\ Emit(bin', {2 * data_idx'})
    /\ UNCHANGED <<ram, bin_cfgs, i>>

LogSecondHalf ==
    /\ LogDue
    /\ carry_over = 1 /\ to - from = 1
    /\ carry_over' = 0
    /\ data_idx' = start_idx + (from - 1) \div 2
    /\ bin' = High(data_idx')
    /\ Emit(bin', {2 * data_idx' + 1})
    /\ UNCHANGED <<ram, bin_cfgs, i>>

NextHisto ==
    /\ Active
    /\ j = IF Cfg = 0 THEN PlainBins ELSE get_num_bins(Cfg)
    /\ i' = i + 1
    /\ j' = 0
    /\ bin' = 0
    /\ carry_over' = 0
    /\ data_idx' = ((i + 1) * NumBins) \div 2
    /\ emitted' = NothingYet
    /\ UNCHANGED <<ram, bin_cfgs, send_idx>>

RebinNext == Copy \/ EqualBin \/ LogEven \/ LogFirstHalf \/ LogSecondHalf \/ NextHisto

RebinSpec == RebinInit /\ [][RebinNext]_rebinVars /\ WF_rebinVars(RebinNext)
-----------------------------------------------------------------------------
\* The bins of histogram h that lie below limit.
Below(h, limit) == (h * NumBins)..(h * NumBins + limit - 1)

Limit(n) == CASE Cfg = 0      -> n
              [] Cfg \in 1..6 -> n * 2 ^ Cfg
              [] OTHER        -> Tables[Cfg][n + 1]

IsAverage == emitted.val = Total(emitted.bins) \div Cardinality(emitted.bins)

Emitted == Active /\ j > 0

\* A bin of an equal-size re-binning, and every single bin, is the average of the
\* histogram's bins it stands for, down to 16 bits.
BinsAreAverages ==
    (Emitted /\ (Cfg < 11 \/ Cardinality(emitted.bins) = 1)) => IsAverage

\* main.c, log-scale bins that start at a word boundary: "new bin is simple
\* average".
LogBinsAreAverages == Emitted => IsAverage

\* The bins of the payload lie side by side: each ends where the next begins,
\* and the last ends where the histogram does.
BinsPartition ==
    Emitted => /\ emitted.bins = Below(i, Limit(j)) \ Below(i, Limit(j - 1))
               /\ j = get_num_bins(Cfg) => Limit(j) = NumBins

\* The payload is as long as the response header announces it.
LengthAsAnnounced == ~Active => send_idx = AnnouncedBytes
=============================================================================
