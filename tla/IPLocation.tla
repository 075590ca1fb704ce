----------------------------- MODULE IPLocation -----------------------------
(***************************************************************************)
(* IpLocationStore: Load() reads address ranges from a file, sorts them    *)
(* and refuses ranges that overlap; GetLocationRecord() finds the range of *)
(* an address by binary search.                                            *)
(***************************************************************************)
EXTENDS Integers, Sequences, FiniteSets, Functions

CONSTANTS Addresses,   \* a set of numbers
          Files        \* the files Load() may find, each a sequence of lines

\* A line: the range its first two fields give, and its commas, where 3 stands for three
\* or more.  A first or second field that is no number, or is not whole, gives no range.
NoRange == [none |-> TRUE]
Lines == [range : [from : Nat, to : Nat] \cup {NoRange}, commas : 0 .. 3]

VARIABLES _ipLocationStore,
          file,      \* history: the file that was loaded
          aborted,   \* the ASSERT of Load() failed
          lookup     \* the last lookup: the address and the record found, if any

vars == <<_ipLocationStore, file, aborted, lookup>>

Init == _ipLocationStore = << >> /\ file = << >> /\ aborted = FALSE /\ lookup = << >>

\* getline() takes the first three fields of a record up to a comma and the fourth up to
\* the end of a line: a line that is short of commas goes on in the next one.  How many
\* commas the record in progress still lacks after each line:
Pending(lines) ==
    LET pending[i \in 0 .. Len(lines)] ==
            IF i = 0 THEN 0
            ELSE LET before == IF pending[i - 1] = 0 THEN 3 ELSE pending[i - 1]
                 IN IF lines[i].commas >= before THEN 0 ELSE before - lines[i].commas
    IN pending

\* The lines that start a record with two numbers which ends before the file does.  The
\* two fields are whole only if the line has two commas.
RecordsOf(lines) ==
    {i \in DOMAIN lines :
        /\ Pending(lines)[i - 1] = 0
        /\ lines[i].commas >= 2 /\ lines[i].range # NoRange
        /\ \E j \in i .. Len(lines) : Pending(lines)[j] = 0}

\* std::sort() by IpFrom, which does not say in what order equal ones come.
Sorted(lines) ==
    LET positions == {p \in [1 .. Cardinality(RecordsOf(lines)) -> RecordsOf(lines)] : IsInjective(p)}
    IN {s \in {[i \in DOMAIN p |-> lines[p[i]].range] : p \in positions} :
            \A i \in 1 .. Len(s) - 1 : s[i].from <= s[i + 1].from}

\* is_sorted() with "a.IpFrom < b.IpTo": a range starts in front of the end of the last.
Overlap(store) == \E i \in 1 .. Len(store) - 1 : store[i + 1].from < store[i].to

\* Load(): the store is emptied first; without the option or the file it stays so.
Load ==
    /\ ~aborted
    /\ \/ _ipLocationStore' = << >> /\ file' = << >> /\ UNCHANGED aborted
       \/ \E f \in Files : \E store \in Sorted(f) :
            _ipLocationStore' = store /\ file' = f /\ aborted' = Overlap(store)
    /\ lookup' = << >>

\* Mutant of Before: the upper end belongs to the range.
BeforeOrAt(ip, record) == ip <= record.to

\* The comparison of upper_bound(), "ip < loc.IpTo".
Before(ip, record) == ip < record.to

\* upper_bound() as the library does it: len records from first on are left to search.
UpperBound(store, ip) ==
    LET search[len \in 0 .. Len(store)] ==
            [first \in 1 .. Len(store) + 1 |->
                LET half == len \div 2
                IN IF len = 0 THEN first
                   ELSE IF Before(ip, store[first + half]) THEN search[half][first]
                   ELSE search[len - half - 1][first + half + 1]]
    IN search[Len(store)][1]

GetLocationRecord(store, ip) ==
    LET itr == UpperBound(store, ip)
    IN IF itr = Len(store) + 1 THEN << >>
       ELSE IF ip < store[itr].from THEN << >> ELSE <<store[itr]>>

\* make_address_v4() throws at a text that is no address: nothing is looked up.
LookUp ==
    /\ ~aborted
    /\ \/ \E ip \in Addresses : lookup' = <<ip, GetLocationRecord(_ipLocationStore, ip)>>
       \/ lookup' = << >>
    /\ UNCHANGED <<_ipLocationStore, file, aborted>>

Next == Load \/ LookUp

-----------------------------------------------------------------------------
Contains(record, ip) == record.from <= ip /\ ip < record.to
Loaded == {file[i].range : i \in RecordsOf(file)}

\* A lookup gives a record only if the record's range has the address, without its upper
\* end; and it finds the one there is, unless a range of the file ends in front of its
\* start (which the ASSERT of Load() does not see, and which misleads the search).
RangeLookup ==
    lookup # << >> =>
        LET ip == lookup[1] IN
        /\ lookup[2] # << >> => lookup[2][1] \in Loaded /\ Contains(lookup[2][1], ip)
        /\ (\A r \in Loaded : r.from <= r.to) =>
              \A r \in Loaded : Contains(r, ip) => lookup[2] = <<r>>
=============================================================================
