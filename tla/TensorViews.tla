---------------------------- MODULE TensorViews -----------------------------
(***************************************************************************)
(* The view of a tensor in shared memory: the descriptor the runtime makes *)
(* of a managed tensor and the checks the worker makes before it builds    *)
(* its own tensor on the mapping.  Offsets and strides are in bytes; a     *)
(* stride may be 0 (an expanded tensor) and views may overlap.             *)
(***************************************************************************)
EXTENDS Integers, Sequences, SequencesExt

CONSTANT MAX_RANK       \* _MAX_RANK, 16

NoView == [refused |-> TRUE]

Total(terms) == FoldFunction(LAMBDA x, n : x + n, 0, terms)

(* The bytes from the first element of a view to the end of its last one.  *)
Span(item, shape, strides) ==
    item + Total([i \in DOMAIN shape |-> (shape[i] - 1) * strides[i]])

Empty(shape) == \E i \in DOMAIN shape : shape[i] = 0

(* BufferManager.managed: allocation is [offset, length, arena] in its     *)
(* buffer, the tensor has its strides and storage offset in elements.      *)
managed(allocation, tensor) ==
    LET strides == [i \in DOMAIN tensor.shape |-> tensor.stride[i] * tensor.item]
        length == IF Empty(tensor.shape) THEN 0 ELSE Span(tensor.item, tensor.shape, strides)
        offset == allocation.offset + tensor.storage_offset * tensor.item
    IN  IF \/ \E i \in DOMAIN tensor.stride : tensor.stride[i] < 0
           \/ offset < allocation.offset
           \/ offset + length > allocation.offset + allocation.length
        THEN NoView
        ELSE [offset |-> offset, byte_length |-> length, item |-> tensor.item,
              shape |-> tensor.shape, strides |-> strides]

_validate_view(buffer_length, view) ==
    /\ Len(view.shape) \in 1..MAX_RANK
    /\ \A i \in DOMAIN view.shape : view.shape[i] > 0
    /\ Len(view.shape) = Len(view.strides)
    /\ view.offset >= 0 /\ view.offset % view.item = 0
    /\ view.byte_length > 0 /\ view.offset + view.byte_length <= buffer_length
    /\ \A i \in DOMAIN view.strides : view.strides[i] >= 0 /\ view.strides[i] % view.item = 0
    /\ Span(view.item, view.shape, view.strides) <= view.byte_length

(* The positions of the elements of a view ...                             *)
Indexes(shape) ==
    {index \in [DOMAIN shape -> UNION {0 .. shape[i] - 1 : i \in DOMAIN shape}] :
        \A i \in DOMAIN shape : index[i] < shape[i]}

Start(view, index) ==
    view.offset + Total([i \in DOMAIN view.shape |-> index[i] * view.strides[i]])

(* ... and the bytes a kernel touches through it.                          *)
Touched(view) ==
    UNION {Start(view, index) .. Start(view, index) + view.item - 1 :
           index \in Indexes(view.shape)}

(* A view that the worker accepts stays inside its mapping.                *)
ViewInside(buffer_length, view) ==
    _validate_view(buffer_length, view) => Touched(view) \subseteq 0..buffer_length - 1

(* Every view the runtime describes stays inside its allocation, and the   *)
(* worker accepts it, unless it has no elements or no dimensions.          *)
ViewAccepted(buffer_length, allocation, tensor) ==
    LET view == managed(allocation, tensor) IN
    view # NoView /\ ~Empty(tensor.shape) /\ tensor.shape # <<>> =>
        /\ _validate_view(buffer_length, view)
        /\ Touched(view) \subseteq
              allocation.offset..allocation.offset + allocation.length - 1
=============================================================================
