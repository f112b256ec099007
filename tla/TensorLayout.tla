---------------------------- MODULE TensorLayout ----------------------------
(***************************************************************************)
(* A model's tensors on their way to disk and back to the GPUs: the writer  *)
(* of src/sllm_store/csrc/checkpoint, the placement of modules on devices   *)
(* (src/sllm_store/sllm_store/device_map_utils.py), the offsets in device   *)
(* memory (utils.py) and what is made of them (torch.py, transformers.py).  *)
(*                                                                         *)
(* A storage has a size, and its cells are pairs of storage and position.   *)
(* A tensor has a name, the module it belongs to and a storage; tied        *)
(* parameters share one.  Names and module names are sequences, of which    *)
(* one may be a prefix of another ("h.1" and "h.10").                       *)
(***************************************************************************)
EXTENDS Question, Ordering

CONSTANTS
    kBufferSize,        \* of an AlignedBuffer; a multiple of kAlignment
    kAlignment,
    kPartitionMaxSize,
    RecordAlignment     \* records start at multiples of it, 8 in the code

Cells(storage, size) == [i \in 1..size |-> <<storage, i>>]

-----------------------------------------------------------------------------
(* The writer.                                                             *)

RECURSIVE WriteData(_, _)

\* Faulty variant of WritesOnce: the buffer starts with the data again.
WritesAgain(b, data, direct) ==
    LET n == Smaller(Len(data) - direct, kBufferSize - Len(b.buf))
    IN [file |-> b.file \o SubSeq(data, 1, direct),
        buf |-> b.buf \o SubSeq(data, 1, n), written |-> direct + n]

\* One pass of the loop: what goes to the file directly, then to the buffer.
WritesOnce(b, data, direct) ==
    LET n == Smaller(Len(data) - direct, kBufferSize - Len(b.buf))
    IN [file |-> b.file \o SubSeq(data, 1, direct),
        buf |-> b.buf \o SubSeq(data, direct + 1, direct + n), written |-> direct + n]

Flushed(b) == [file |-> b.file \o b.buf, buf |-> <<>>]
FlushedIfFull(b) == IF Len(b.buf) = kBufferSize THEN Flushed(b) ELSE [file |-> b.file, buf |-> b.buf]

\* AlignedBuffer::writeData
WriteData(b, data) ==
    LET direct == IF Len(data) > kBufferSize /\ b.buf = <<>>
                  THEN (Len(data) \div kAlignment) * kAlignment ELSE 0
        w == WritesOnce(b, data, direct)
    IN IF data = <<>> THEN b
       ELSE WriteData(FlushedIfFull(w), SubSeq(data, w.written + 1, Len(data)))

WritePadding(b, n) ==
    FlushedIfFull([b EXCEPT !.buf = @ \o [i \in 1..n |-> <<"padding", i>>]])

NewFile == [file |-> <<>>, buf |-> <<>>]
NewWriter == [closed |-> <<>>, open |-> Unknown, size |-> 0, offset |-> 0]

\* TensorWriter::writeRecord.  A new partition writes out the one before.
WriteRecord(w, data) ==
    LET next == w.open = Unknown \/ w.size + Len(data) > kPartitionMaxSize
        b == IF next THEN NewFile ELSE w.open
        padding == (RecordAlignment - (Len(data) % RecordAlignment)) % RecordAlignment
        written == Len(data) + padding
    IN [closed |-> IF next /\ w.open # Unknown THEN Append(w.closed, Flushed(w.open).file)
                   ELSE w.closed,
        open |-> WritePadding(WriteData(b, data), padding),
        size |-> (IF next THEN 0 ELSE w.size) + written,
        offset |-> w.offset + written]

\* SaveTensors and the index save_dict makes: a storage is written once.
SaveTensors(tensors, sizes) ==
    FoldLeft(LAMBDA s, t :
        IF t.storage \in DOMAIN s.at THEN s
        ELSE [writer |-> WriteRecord(s.writer, Cells(t.storage, sizes[t.storage])),
              at |-> (t.storage :> s.writer.offset) @@ s.at],
        [writer |-> NewWriter, at |-> <<>>], tensors)

\* The partition files when the writer is gone; the last buffer is written out.
Partitions(w) ==
    IF w.open = Unknown THEN <<>> ELSE Append(w.closed, Flushed(w.open).file)

TensorIndex(tensors, sizes, at) ==
    [i \in DOMAIN tensors |-> <<at[tensors[i].storage], sizes[tensors[i].storage]>>]

-----------------------------------------------------------------------------
(* The placement.                                                          *)

StoragesOf(x, m) == {x.tensors[i].storage : i \in {j \in DOMAIN x.tensors : x.tensors[j].module = m}}
SizeOf(x, storages) == MapThenSumSet(LAMBDA s : x.sizes[s], storages)

\* get_no_split_modules, as a sequence of modules and sizes.
NoSplitModules(x) == [m \in DOMAIN x.modules |-> <<m, SizeOf(x, StoragesOf(x, m))>>]

\* get_tied_no_split_modules: modules that share a parameter, with its size.
TiedModules(x) ==
    LET shared == {s \in DOMAIN x.sizes :
                      Cardinality({m \in DOMAIN x.modules : s \in StoragesOf(x, m)}) > 1}
    IN [i \in 1..Cardinality(shared) |->
           LET s == SetToSortSeq(shared, <)[i]
           IN [group |-> {m \in DOMAIN x.modules : s \in StoragesOf(x, m)}, size |-> x.sizes[s]]]


TiedSize(modules, others, first, shared) ==
    modules[first][2] + MapThenSumSet(LAMBDA i : modules[i][2] - shared, others)

\* Tied modules are one module: the first of them, without what they share.
MergeTied(modules, tied) ==
    LET first == SelectInSeq(modules, LAMBDA p : p[1] \in tied.group)
        others == {i \in DOMAIN modules : i # first /\ modules[i][1] \in tied.group}
        kept == SelectSeq([i \in DOMAIN modules |-> i], LAMBDA i : i \notin others)
    IN [j \in DOMAIN kept |->
           IF kept[j] = first THEN <<modules[first][1], TiedSize(modules, others, first, tied.size)>>
           ELSE modules[kept[j]]]

\* The sizes of the modules from i+1 to j together.
Stretch(modules, i, j) == MapThenSumSet(LAMBDA k : modules[k][2], (i + 1)..j)

\* _get_balanced_placement: table[<<i, k>>] puts the first i modules on the first
\* k devices; None if that does not fit.  Of equal gaps the first found stays.
BalancedTable(modules, memory) ==
    LET table[c \in (0..Len(modules)) \X (0..Len(memory))] ==
            LET i == c[1]
                k == c[2]
                fits == {j \in 0..(i - 1) : Stretch(modules, j, i) <= memory[k]
                                            /\ table[<<j, k - 1>>] # Unknown}
                Gap(j) == LET p == table[<<j, k - 1>>]
                              size == Stretch(modules, j, i)
                          IN IF p.min = Unknown THEN 0
                             ELSE Larger(Distance(p.min, size), Distance(p.max, size))
                best == CHOOSE j \in fits : \A h \in fits : Gap(j) < Gap(h) \/ (Gap(j) = Gap(h) /\ j <= h)
            IN IF i = 0 /\ k = 0 THEN [min |-> Unknown, max |-> 0, cuts |-> <<>>]
               ELSE IF i = 0 \/ k = 0 THEN Unknown
               ELSE IF fits = {} THEN Unknown
               ELSE LET p == table[<<best, k - 1>>]
                        size == Stretch(modules, best, i)
                    IN [min |-> IF p.min = Unknown THEN size ELSE Smaller(p.min, size),
                        max |-> Larger(p.max, size),
                        cuts |-> Append(p.cuts, <<best, i>>)]
    IN table[<<Len(modules), Len(memory)>>]

\* A table that was not filled to the end leaves no module placed.
BalancedPlacement(modules, memory) ==
    LET t == BalancedTable(modules, memory)
    IN IF t = Unknown THEN <<>>
       ELSE [i \in DOMAIN modules |->
                <<modules[i][1], CHOOSE k \in DOMAIN t.cuts : t.cuts[k][1] < i /\ i <= t.cuts[k][2]>>]

\* _get_sequential_placement: the first device, from the last used on, that has
\* room for the module alone.  None where the devices run out.
SequentialPlacement(modules, memory) ==
    LET From(d, size) == {e \in d..Len(memory) : size <= memory[e]}
        placed == FoldLeft(LAMBDA p, m :
            IF p = Unknown \/ From(p.device, m[2]) = {} THEN Unknown
            ELSE LET d == Min(From(p.device, m[2]))
                 IN [device |-> d, placement |-> Append(p.placement, <<m[1], d>>)],
            [device |-> 1, placement |-> <<>>], modules)
    IN IF placed = Unknown THEN Unknown ELSE placed.placement

\* Tied modules follow the one that was placed, at the end of the dictionary.
WithTied(placement, tied) ==
    FoldLeft(LAMBDA p, t :
        LET i == SelectInSeq(p, LAMBDA e : e[1] \in t.group)
            placed == {p[j][1] : j \in DOMAIN p}
        IN IF i = 0 THEN p
           ELSE [j \in DOMAIN p |-> IF p[j][1] \in t.group THEN <<p[j][1], p[i][2]>> ELSE p[j]]
                \o [j \in 1..Cardinality(t.group \ placed) |->
                       <<SetToSortSeq(t.group \ placed, <)[j], p[i][2]>>],
        placement, tied)

\* _compute_device_placement_from_map_fast; None where it raises.  Devices are
\* dropped from the end while the first one is too small for the first module,
\* so that none is left.
ComputePlacement(x) ==
    LET tied == TiedModules(x)
        modules == FoldLeft(MergeTied, NoSplitModules(x), tied)
        total == MapThenSumSet(LAMBDA i : modules[i][2], DOMAIN modules)
        room == MapThenSumSet(LAMBDA d : x.memory[d], DOMAIN x.memory)
        placement == IF x.kind = "auto" THEN BalancedPlacement(modules, x.memory)
                     ELSE SequentialPlacement(modules, x.memory)
    IN IF modules[1][2] > x.memory[1] \/ total > room \/ Len(modules) < Len(x.memory) THEN Unknown
       ELSE IF placement = Unknown THEN Unknown
       ELSE WithTied(placement, tied)

\* _transform_device_map_to_dict: entries of a name and a device.  A device alone
\* is for the empty name.
DeviceMap(x) ==
    LET placement == ComputePlacement(x)
    IN IF x.kind = "device" THEN <<<<<<>>, x.device>>>>
       ELSE IF placement = Unknown THEN Unknown
       ELSE [i \in DOMAIN placement |-> <<x.modules[placement[i][1]], placement[i][2]>>]

-----------------------------------------------------------------------------
(* The way to the devices.                                                 *)

\* _expand_tensor_name: the last entry that is a prefix of the name counts; a
\* name stays where it was first put.  Tensors with their devices, in order.
ExpandTensorName(x, device_map) ==
    LET Of(i) == SelectSeq(device_map, LAMBDA e : IsPrefix(e[1], x.tensors[i].name))
        FirstEntry(i) == SelectInSeq(device_map, LAMBDA e : IsPrefix(e[1], x.tensors[i].name))
        found == SelectSeq([i \in DOMAIN x.tensors |-> i], LAMBDA i : Of(i) # <<>>)
        ordered == SortedBy(found, LAMBDA i : <<FirstEntry(i), i>>)
    IN [j \in DOMAIN ordered |-> <<ordered[j], Last(Of(ordered[j]))[2]>>]

\* calculate_device_memory: a record is counted on the first device it is for.
DeviceMemory(device_map, index, d) ==
    LET first == {j \in DOMAIN device_map :
                     /\ device_map[j][2] = d
                     /\ \A h \in 1..(j - 1) : index[device_map[h][1]] # index[device_map[j][1]]}
    IN MapThenSumSet(LAMBDA j : index[device_map[j][1]][2], first)

\* calculate_tensor_device_offsets: records are known by their place in the file,
\* whatever the device.
DeviceOffsets(device_map, index, devices) ==
    FoldLeft(LAMBDA s, e :
        LET record == index[e[1]]
            known == record \in DOMAIN s.records
            at == IF known THEN s.records[record] ELSE s.used[e[2]]
        IN [offsets |-> (e[1] :> <<e[2], at>>) @@ s.offsets,
            records |-> (record :> at) @@ s.records,
            chunks |-> IF known THEN s.chunks
                       ELSE Append(s.chunks, [device |-> e[2], from |-> record[1], size |-> record[2], to |-> at]),
            used |-> IF known THEN s.used ELSE [s.used EXCEPT ![e[2]] = @ + record[2]]],
        [offsets |-> <<>>, records |-> <<>>, chunks |-> <<>>, used |-> [d \in devices |-> 0]],
        device_map)

-----------------------------------------------------------------------------
(* The store: from the files to chunks of host memory, and to the devices.  *)

Piece(file, from, size) == SubSeq(file, from + 1, Smaller(from + size, Len(file)))

\* Where a thread starts to read.
StartsAt(files, offset) ==
    LET Before(p) == MapThenSumSet(LAMBDA i : Len(files[i]), 1..(p - 1))
        p == CHOOSE i \in DOMAIN files : Before(i) <= offset /\ offset < Before(i) + Len(files[i])
    IN [partition |-> p, offset |-> offset - Before(p)]

\* A chunk that a partition ends in is read on in the next one.
ReadChunk(files, at, size) ==
    LET part == Piece(files[at.partition], at.offset, size)
        rest == Piece(files[at.partition + 1], 0, size - Len(part))
    IN IF Len(part) = size
       THEN [cells |-> part, at |-> [at EXCEPT !.offset = @ + size]]
       ELSE [cells |-> part \o rest, at |-> [partition |-> at.partition + 1, offset |-> Len(rest)]]

\* Model::ToHost: every thread reads its run of chunks.  No chunk is spread over
\* three partitions, which it would refuse.
ToHostMemory(files, chunk_size, num_threads) ==
    LET model_size == MapThenSumSet(LAMBDA i : Len(files[i]), DOMAIN files)
        num_chunks == (model_size + chunk_size - 1) \div chunk_size
        per == (num_chunks + num_threads - 1) \div num_threads
        Run(t) == [i \in 1..Larger(0, Smaller(per, num_chunks - t * per)) |-> t * per + i - 1]
        Reads(t) ==
            FoldLeft(LAMBDA s, c :
                LET r == ReadChunk(files, s.at, Smaller(chunk_size, model_size - c * chunk_size))
                IN [at |-> r.at, chunks |-> Append(s.chunks, r.cells)],
                [at |-> StartsAt(files, t * per * chunk_size), chunks |-> <<>>], Run(t)).chunks
    IN FlattenSeq([t \in 1..num_threads |->
                     IF t * per - per >= num_chunks THEN <<>> ELSE Reads(t - 1)])

\* Model::MapDataToChunks: chunk, offset in it and size of each piece.
MapDataToChunks(offset, size, chunk_size) ==
    LET start == offset \div chunk_size
        end == (offset + size - 1) \div chunk_size
    IN [i \in 1..(IF size = 0 THEN 0 ELSE end - start + 1) |->
           LET from == IF i = 1 THEN offset % chunk_size ELSE 0
               done == IF i = 1 THEN 0 ELSE (start + i - 1) * chunk_size - offset
           IN [chunk |-> start + i - 1, offset |-> from, done |-> done,
               size |-> Smaller(chunk_size - from, size - done)]]

\* DispatchToGpu and the copy threads: the memory of a device, cell by cell.
CopiedToGpu(host, chunk_size, chunks, memory, d) ==
    LET pieces == FlattenSeq([i \in DOMAIN chunks |->
            LET c == chunks[i]
                of == MapDataToChunks(c.from, c.size, chunk_size)
            IN IF c.device # d THEN <<>>
               ELSE [j \in DOMAIN of |-> [to |-> c.to + of[j].done, size |-> of[j].size,
                        cells |-> Piece(host[of[j].chunk + 1], of[j].offset, of[j].size)]]])
    IN [i \in 1..memory |->
           LET n == SelectInSeq(pieces, LAMBDA p : p.to < i /\ i <= p.to + p.size)
           IN IF n = 0 THEN Unknown ELSE pieces[n].cells[i - pieces[n].to]]

\* A tensor is what lies at its offset on its device.
RestoreTensors(offsets, index, devices) ==
    [i \in DOMAIN offsets |->
        [device |-> offsets[i][1], cells |-> Piece(devices[offsets[i][1]], offsets[i][2], index[i][2])]]

\* save_dict, then load_dict_non_blocking, the store, and RestoreTensors.
LoadModel(x) ==
    LET s == SaveTensors(x.tensors, x.sizes)
        host == ToHostMemory(Partitions(s.writer), x.chunk_size, x.threads)
        index == TensorIndex(x.tensors, x.sizes, s.at)
        entries == DeviceMap(x)
        device_map == ExpandTensorName(x, entries)
        o == DeviceOffsets(device_map, index, DOMAIN x.memory)
        memory == [d \in DOMAIN x.memory |-> DeviceMemory(device_map, index, d)]
        devices == [d \in DOMAIN x.memory |-> CopiedToGpu(host, x.chunk_size, o.chunks, memory[d], d)]
    IN IF entries = Unknown THEN [entries |-> Unknown]
       ELSE [entries |-> entries, memory |-> memory,
             tensors |-> RestoreTensors(o.offsets, index, devices)]

-----------------------------------------------------------------------------
(* Properties                                                              *)

\* A tensor that is saved and loaded again has its own content, on the device
\* of its module: through the buffered, partitioned file, chunks of host memory
\* that end anywhere in a tensor, records that tensors share, and names that
\* are prefixes of others (save_dict, ToHost, DispatchToGpu, RestoreTensors).
LoadedAsSaved ==
    topic = "layout" /\ answer.entries \notin {Unknown, <<>>} =>
        \A i \in DOMAIN q.tensors :
            LET t == q.tensors[i]
            IN /\ i \in DOMAIN answer.tensors
               /\ answer.tensors[i].cells = Cells(t.storage, q.sizes[t.storage])
               /\ \E j \in DOMAIN answer.entries :
                      /\ answer.entries[j][1] \in {q.modules[t.module], <<>>}
                      /\ answer.entries[j][2] = answer.tensors[i].device

\* What is allocated on a device is at most its memory, although the placement
\* counts modules, tied ones as one, and the allocation counts records
\* (_compute_device_placement_from_map_fast, calculate_device_memory).
AllocationFits ==
    topic = "layout" /\ q.kind = "auto" /\ answer.entries # Unknown =>
        \A d \in DOMAIN q.memory : answer.memory[d] <= q.memory[d]
=============================================================================
