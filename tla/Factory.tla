------------------------------ MODULE Factory ------------------------------
(***************************************************************************)
(* Factory plugins and their products (core/src/Factory.cc and             *)
(* core/include/gz/plugin/detail/Factory.hh).                              *)
(*                                                                         *)
(* A product keeps a std::shared_ptr to the instance of the factory that   *)
(* made it, and so keeps their library loaded.  When the product goes, the *)
(* reference must outlast the library's destructor code.  ProductDeleter   *)
(* moves it to a local variable before it deletes the product.  A product  *)
(* deleted in any other way leaves a copy in the process-wide vector       *)
(* lostProducts as the last thing its destructor does; CleanupLostProducts *)
(* empties the vector, under a mutex.                                      *)
(*                                                                         *)
(* An instance exists while it has an owner; a library is loaded while the *)
(* Loader holds it or an instance of it exists (modules PluginLifetime and *)
(* Loader go into the details of that).                                    *)
(***************************************************************************)
EXTENDS Naturals

CONSTANTS
  Threads,
  Libs,       \* libraries that provide factories
  Factories,  \* instances of factory plugins
  Products,   \* the objects that factories construct
  LibOf,      \* LibOf[f]: the library of factory f
  LongWait,   \* the safety wait of CleanupLostProducts is long enough for a
              \*   destructor that has handed over its reference to return
  MaxLost,    \* bound: no product is lost while its factory has this many
  NoThread, NoFactory, NoProduct   \* null values

ASSUME FactoryAssumption ==
  /\ LibOf \in [Factories -> Libs]
  /\ LongWait \in BOOLEAN
  /\ MaxLost \in Nat \ {0}
  /\ NoThread \notin Threads
  /\ NoFactory \notin Factories
  /\ NoProduct \notin Products

(* A product: the factory it refers to, and whether a ProductPtr owns it   *)
(* or it was released to a raw pointer.                                    *)
Product == [factory : Factories, owned : BOOLEAN]

ASSUME ProductAssumption == NoProduct \notin Product

VARIABLES
  loaded,    \* the libraries the Loader holds
  plugins,   \* plugins[f]: the threads that have a PluginPtr to f
  product,   \* product[p]: a Product, or NoProduct
  lost,      \* lost[f]: how often f is in lostProducts
  mutex,     \* the owner of lostProductManager.mutex, or NoThread
  frame      \* frame[t]: the operation that thread t is inside of

vars == <<loaded, plugins, product, lost, mutex, frame>>

(* The operations in progress, by the place reached.  The thread executes  *)
(* code of the factory's library in those of InCode, and owns a reference  *)
(* to the factory in those of Owning.                                      *)
(*   construct  ImplConstruct, the product has been constructed            *)
(*   delete     ProductDeleter, in `delete _ptr'                           *)
(*   drop       ProductDeleter, about to end its local reference           *)
(*   destruct   a plain delete, before ~FactoryCounter locks the mutex     *)
(*   handed     ~FactoryCounter has handed over a copy of its reference    *)
(*   leaving    its member is gone too, the destructor has yet to return   *)
(*   wait       CleanupLostProducts, in the safety wait                    *)
(*   clear      CleanupLostProducts, in lostProducts.clear()               *)
InCode  == {"construct", "delete", "destruct", "handed", "leaving"}
Owning  == {"delete", "drop", "destruct", "handed"}
Cleanup == {"wait", "clear"}

Idle == [op |-> "idle", product |-> NoProduct, factory |-> NoFactory]

Busy(operation, p, f) == [op |-> operation, product |-> p, factory |-> f]

Frame ==
  {Idle}
    \cup [op : InCode \cup Owning, product : Products, factory : Factories]
    \cup [op : Cleanup, product : {NoProduct}, factory : {NoFactory}]

TypeOK ==
  /\ loaded \subseteq Libs
  /\ plugins \in [Factories -> SUBSET Threads]
  /\ product \in [Products -> Product \cup {NoProduct}]
  /\ lost \in [Factories -> Nat]
  /\ mutex \in Threads \cup {NoThread}
  /\ frame \in [Threads -> Frame]

Free(t) == frame[t] = Idle

(* Thread t gets from one place of an operation to the next, or to its     *)
(* end, and nothing else changes but what the frame owns.                  *)
Advance(t, from, to) ==
  /\ frame[t].op = from
  /\ frame' = [frame EXCEPT ![t].op = to]
  /\ UNCHANGED <<loaded, plugins, product, lost, mutex>>

Return(t, from) ==
  /\ frame[t].op = from
  /\ frame' = [frame EXCEPT ![t] = Idle]
  /\ UNCHANGED <<loaded, plugins, product, lost, mutex>>

(* The factory instance f has an owner. *)
Alive(f) ==
  \/ plugins[f] # {}
  \/ \E p \in Products : product[p] # NoProduct /\ product[p].factory = f
  \/ lost[f] > 0
  \/ \E t \in Threads : frame[t].op \in Owning /\ frame[t].factory = f

Mapped(lib) ==
  lib \in loaded \/ \E f \in Factories : LibOf[f] = lib /\ Alive(f)

Init ==
  /\ loaded = {}
  /\ plugins = [f \in Factories |-> {}]
  /\ product = [p \in Products |-> NoProduct]
  /\ lost = [f \in Factories |-> 0]
  /\ mutex = NoThread
  /\ frame = [t \in Threads |-> Idle]

-----------------------------------------------------------------------------
(* What the program does with the Loader and with PluginPtrs *)

LoadLib(t, lib) ==
  /\ Free(t)
  /\ loaded' = loaded \cup {lib}
  /\ UNCHANGED <<plugins, product, lost, mutex, frame>>

ForgetLibrary(t, lib) ==
  /\ Free(t)
  /\ loaded' = loaded \ {lib}
  /\ UNCHANGED <<plugins, product, lost, mutex, frame>>

Instantiate(t, f) ==
  /\ Free(t)
  /\ LibOf[f] \in loaded
  /\ ~Alive(f)
  /\ plugins' = [plugins EXCEPT ![f] = {t}]
  /\ UNCHANGED <<loaded, product, lost, mutex, frame>>

CopyPluginPtr(t, f, u) ==
  /\ Free(t)
  /\ t \in plugins[f]
  /\ plugins' = [plugins EXCEPT ![f] = @ \cup {u}]
  /\ UNCHANGED <<loaded, product, lost, mutex, frame>>

DropPluginPtr(t, f) ==
  /\ Free(t)
  /\ t \in plugins[f]
  /\ plugins' = [plugins EXCEPT ![f] = @ \ {t}]
  /\ UNCHANGED <<loaded, product, lost, mutex, frame>>

-----------------------------------------------------------------------------
(* Construct *)

Unused(p) ==
  product[p] = NoProduct /\ \A t \in Threads : frame[t].product # p

(* ImplConstruct up to the end of the product's constructor; the thread    *)
(* goes through its PluginPtr to the factory, which it keeps.              *)
Construct(t, f, p) ==
  /\ Free(t)
  /\ t \in plugins[f]
  /\ Unused(p)
  /\ frame' = [frame EXCEPT ![t] = Busy("construct", p, f)]
  /\ UNCHANGED <<loaded, plugins, product, lost, mutex>>

(* Mutation for TypeOK: the product never gets its factory. *)
AdoptProductBare(t) ==
  /\ frame[t].op = "construct"
  /\ product' = [product EXCEPT ![frame[t].product] =
                   [factory |-> NoFactory, owned |-> TRUE]]
  /\ frame' = [frame EXCEPT ![t] = Idle]
  /\ UNCHANGED <<loaded, plugins, lost, mutex>>

(* The product gets its reference to the factory instance, and a           *)
(* ProductPtr to it is returned.                                           *)
AdoptProduct(t) ==
  /\ frame[t].op = "construct"
  /\ product' = [product EXCEPT ![frame[t].product] =
                   [factory |-> frame[t].factory, owned |-> TRUE]]
  /\ frame' = [frame EXCEPT ![t] = Idle]
  /\ UNCHANGED <<loaded, plugins, lost, mutex>>

(* The constructor of the product throws: its base FactoryCounter, which   *)
(* has no reference yet, is destroyed and hands over nothing.              *)
ConstructThrows(t) == Return(t, "construct")

(* ProductPtr::release *)
Release(t, p) ==
  /\ Free(t)
  /\ product[p] # NoProduct
  /\ product[p].owned
  /\ product' = [product EXCEPT ![p].owned = FALSE]
  /\ UNCHANGED <<loaded, plugins, lost, mutex, frame>>

-----------------------------------------------------------------------------
(* ProductDeleter, called by a ProductPtr or on a raw pointer *)

DeleteProduct(t, p) ==
  /\ Free(t)
  /\ product[p] # NoProduct
  /\ product' = [product EXCEPT ![p] = NoProduct]
  /\ frame' = [frame EXCEPT ![t] = Busy("delete", p, product[p].factory)]
  /\ UNCHANGED <<loaded, plugins, lost, mutex>>

EndDelete(t) == Advance(t, "delete", "drop")

DropFactory(t) == Return(t, "drop")

-----------------------------------------------------------------------------
(* A plain delete of a product that was released *)

LoseProduct(t, p) ==
  /\ Free(t)
  /\ product[p] # NoProduct
  /\ ~product[p].owned
  /\ lost[product[p].factory] < MaxLost
  /\ product' = [product EXCEPT ![p] = NoProduct]
  /\ frame' = [frame EXCEPT ![t] = Busy("destruct", p, product[p].factory)]
  /\ UNCHANGED <<loaded, plugins, lost, mutex>>

(* Mutation for CodeMapped: the reference is not handed over. *)
HandOverNothing(t) == mutex = NoThread /\ Advance(t, "destruct", "handed")

(* The critical section of ~FactoryCounter. *)
HandOver(t) ==
  /\ frame[t].op = "destruct"
  /\ mutex = NoThread
  /\ lost' = [lost EXCEPT ![frame[t].factory] = @ + 1]
  /\ frame' = [frame EXCEPT ![t].op = "handed"]
  /\ UNCHANGED <<loaded, plugins, product, mutex>>

DropMember(t) == Advance(t, "handed", "leaving")

Leave(t) == Return(t, "leaving")

-----------------------------------------------------------------------------
(* CleanupLostProducts *)

CleanupLostProducts(t) ==
  /\ Free(t)
  /\ mutex = NoThread
  /\ mutex' = t
  /\ frame' = [frame EXCEPT ![t] = Busy("wait", NoProduct, NoFactory)]
  /\ UNCHANGED <<loaded, plugins, product, lost>>

(* Mutation for MutexReleased: the wait is also for the destructors that   *)
(* have not handed over their reference yet.                               *)
EndWaitForAll(t) ==
  /\ Advance(t, "wait", "clear")
  /\ LongWait => \A u \in Threads :
                   frame[u].op \notin {"destruct", "handed", "leaving"}

(* The destructors that handed over their reference did so before the      *)
(* mutex was locked.  A safety wait that is long enough lasts until they   *)
(* have returned; otherwise it may end at any time.                        *)
EndWait(t) ==
  /\ Advance(t, "wait", "clear")
  /\ LongWait => \A u \in Threads : frame[u].op \notin {"handed", "leaving"}

(* lostProducts.clear() ends its references one after the other. *)
ClearLost(t, f) ==
  /\ frame[t].op = "clear"
  /\ lost[f] > 0
  /\ lost' = [lost EXCEPT ![f] = @ - 1]
  /\ UNCHANGED <<loaded, plugins, product, mutex, frame>>

EndCleanup(t) ==
  /\ frame[t].op = "clear"
  /\ \A f \in Factories : lost[f] = 0
  /\ mutex' = NoThread
  /\ frame' = [frame EXCEPT ![t] = Idle]
  /\ UNCHANGED <<loaded, plugins, product, lost>>

-----------------------------------------------------------------------------
Continue(t) ==
  \/ AdoptProduct(t) \/ ConstructThrows(t)
  \/ EndDelete(t) \/ DropFactory(t)
  \/ HandOver(t) \/ DropMember(t) \/ Leave(t)
  \/ EndWait(t) \/ (\E f \in Factories : ClearLost(t, f)) \/ EndCleanup(t)

Invoke(t) ==
  \/ \E lib \in Libs : LoadLib(t, lib) \/ ForgetLibrary(t, lib)
  \/ \E f \in Factories : Instantiate(t, f) \/ DropPluginPtr(t, f)
  \/ \E f \in Factories, u \in Threads : CopyPluginPtr(t, f, u)
  \/ \E f \in Factories, p \in Products : Construct(t, f, p)
  \/ \E p \in Products : Release(t, p) \/ DeleteProduct(t, p)
                           \/ LoseProduct(t, p)
  \/ CleanupLostProducts(t)

Next == \E t \in Threads : Invoke(t) \/ Continue(t)

Spec == Init /\ [][Next]_vars

(* A thread that can go on with an operation does so.  Nothing is assumed  *)
(* about which of several waiting threads the mutex goes to.               *)
FairSpec == Spec /\ \A t \in Threads : WF_vars(Continue(t))

-----------------------------------------------------------------------------
(* Properties *)

(* A library is loaded while one of its products exists and while any      *)
(* thread executes the constructor or the destructor of one, however the   *)
(* product is deleted (the comments in ~FactoryCounter and ProductDeleter: *)
(* otherwise "the call stack will be viewing memory that no longer belongs *)
(* to the application").                                                   *)
CodeMapped ==
  /\ \A p \in Products :
       product[p] # NoProduct => Mapped(LibOf[product[p].factory])
  /\ \A t \in Threads :
       frame[t].op \in InCode => Mapped(LibOf[frame[t].factory])

(* CleanupLostProducts ends, so that no destructor is blocked for good     *)
(* (its documentation: threads about to destruct a product "will be        *)
(* blocked until this wait is over").                                      *)
MutexReleased == (mutex # NoThread) ~> (mutex = NoThread)
=============================================================================
