# Formal models of gz-plugin

gz-plugin loads C++ plugin libraries at run time, makes instances of the
plugins in them, and unloads each library once nothing needs its code. The code
of this repository is mostly about that last clause: who keeps a library
loaded, which objects need it, and in which order they go. These modules
specify that part, check it with TLC on small instances, and prove the
most important facts for instances of any size with TLAPS.

## Inventory

| Component | Source | State | Operations |
|---|---|---|---|
| Registry | `loader/src/detail/Registry.cc` | `plugins`: name to Info; `aliases`: alias to names | AddInfo, ForgetInfo, LookupPlugin, queries |
| StaticRegistry | `loader/src/detail/StaticRegistry.cc` | the same, process-wide, filled by static initialisers | AddInfo (merging), queries |
| Loader | `loader/src/Loader.cc` | `filePlugins`, `pluginToDlHandlePtrs`, `dlHandlePtrMap`, `dlHandleToPluginMap` | LoadLib, ForgetLibrary, ForgetLibraryOfPlugin, Instantiate, destructor |
| Dynamic linker | external | count of opens per library, handles | dlopen, dlclose |
| Plugin, PluginPtr | `core/src/Plugin.cc`, `core/include/gz/plugin/detail/PluginPtr.hh` | `loadedInstancePtr`, `info`, `interfaces` | construct, copy, move, assign, clear, destroy, query |
| SpecializedPlugin | `core/include/gz/plugin/detail/SpecializedPlugin.hh` | an iterator into `interfaces` for each class of an inheritance tree | the same with direct access |
| WeakPluginPtr, EnablePluginFromThis | `core/src/WeakPluginPtr.cc`, `core/src/EnablePluginFromThis.cc` | two `weak_ptr`s | assign, copy, move, Lock, IsExpired, PluginFromThis |
| Factory | `core/src/Factory.cc`, `core/include/gz/plugin/detail/Factory.hh` | a product's `factoryPluginInstancePtr`, the process-wide `lostProducts` and its mutex | Construct, ProductDeleter, plain delete, CleanupLostProducts |
| Registration | `register/include/gz/plugin/detail/*.hh` | one InfoMap per library, in its GzPluginHook | MakeInfo, the registrars of the macros, GzPluginHook's input and output |
| Others | `core/src/utility.cc`, `loader/src/cmd` | none | demangling, layout of printed text, the command-line tool |

How they interact. A registration macro defines a static object whose
constructor hands one Info to the `GzPluginHook` of its library, or to the
process-wide StaticRegistry. `Loader::LoadLib` opens a library, which runs these
constructors, asks the hook for its map, and puts copies of the Infos there
into the Loader's Registry. An Info holds function
objects (factory, deleter, casts) whose code, and whose destructors' code, lies
in the library. `Loader::Instantiate` makes an instance and gives it a
reference to the library's handle; a PluginPtr owns the instance and shares the
Info with the registry. `ForgetLibrary` removes the Infos and the Loader's
references; the owner that goes last calls `dlclose`. Several Loaders, and
instances that outlive their Loader, meet in the dynamic linker's count.
Products of factories keep the instance of their factory.

What is hard here:

* *ordering*: members must be destroyed in a certain order, which nothing but
  the order of their declarations ensures (`Loader.cc:69-87`,
  `Plugin.cc:78-105`, `Plugin.cc:280-302`, `Factory.hh:112-121`);
* *counting*: each `dlopen` needs one `dlclose`, over repeated loads, several
  Loaders, and several threads that release instances;
* *initialisation order and symbol resolution*: the constructors of several
  macros for one class run in an unspecified order, and which library's
  `GzPluginHook` they reach is decided by the dynamic linker;
* *stale state*: handles are addresses that are reused, weak pointers expire
  between two lines, map entries outlive what they pointed to;
* *concurrency*: a Loader is used by one thread at a time, but the release of
  plugins, weak pointers, factory products and the lost products are not;
* *long sequences of legal calls*, such as two libraries that provide a
  plugin of the same name.

What makes each component correct: the Registry's two maps agree; a Loader
never unloads a library under an Info or an instance, never unloads it twice
and never leaks it; a hook reports what its library registers, all of it and
nothing else; a PluginPtr that is not empty has the Info of its instance,
and its interface pointers point into that instance; an Info never outlives its
library; no library is unloaded while a thread is in a product's constructor
or destructor.

`PROJECT.json` lists the hazards at their lines, with the properties that cover
them.

## Modules

| Module | What it is | Extends |
|---|---|---|
| `Registry` | the registry as a value, with its queries and updates | |
| `DynamicLinker` | dlopen and dlclose, as Loader.cc uses them (external) | |
| `Loader` | the Loader, several of them, several threads | `Registry`, `DynamicLinker` |
| `LibraryUsage` | abstract: a library is unloaded only when nothing uses it | |
| `PluginLifetime` | PluginPtr, SpecializedPluginPtr, WeakPluginPtr, interface pointers | |
| `Factory` | products, ProductDeleter, the lost products | |
| `Registration` | macros, GzPluginHook, StaticRegistry and what a Loader makes of them | (an instance of `Registry`) |
| `MCLoader`, `MCPluginLifetime`, `MCFactory`, `MCRegistration` | instances for TLC | the module each is named for |
| `RegistryProofs` | lemmas on the registry | `Registry` |
| `LoaderProofs` | type correctness of the Loader | `Loader` |
| `RefCountProofs` | the Loader's reference counts | `LoaderProofs` |
| `UsageProofs` | what the counts are for: nothing unloaded too early, nothing leaked or left behind, the refinement of `LibraryUsage`; calls come to an end | `RefCountProofs` |
| `PluginLifetimeProofs` | PluginPtrs and the life of an Info | `PluginLifetime` |
| `FactoryProofs` | products never lose their library | `Factory` |
| `RegistrationProofs` | what the hooks gather, and that Infos keep their code | `Registration` |
| `QueryProofs` | what the queries answer | `RegistrationProofs` |

### Registry

A record with the two maps of the class. Names and aliases are both strings and
`LookupPlugin` takes either, so both are elements of one set, `Symbols`. An
absent alias and one with no names answer every query alike and are both `{}`.
An Info keeps its name, its aliases and the library its code is in.

### Loader

Variables have the names of the members. Left out is `dlHandlePtrMap`: its
weak pointers can be locked exactly while the control block they refer to has
an owner, and the owners are all in the state (`Live`). The control block that
Loader `l` made for handle `h` is named `<<l, h>>`.

A call is one action where no other thread can see an intermediate state, and
several where one can:

* `LoadLib`: `LoadLib` (dlopen), `AdoptHandle` (the decision between an old and
  a new control block, `Loader.cc:479-523`), one `RegisterPlugin` for each Info
  in any order (the map of the library is unordered), `FinishLoad`;
* `ForgetLibrary`: `ForgetLibrary` (the probing dlopen), its `dlclose`,
  `FindLibrary`, then `ForgetPluginInfo` and `ErasePluginHandle` for each
  plugin, `FinishForget`; `ForgetLibraryOfPlugin` enters at `FindLibrary`;
* the destructor: `DestroyLoader`, `DestroyHandle` for each entry,
  `FinishDestroy`;
* `InstantiateFromFile`, `InstantiateStatic`, and `DeleteInstance`, which is
  the end of the last owner of an instance, in any thread;
* `CloseHandle` is the `dlclose` that the last owner of a control block makes.
  It is a step of its own because other threads may act between the end of the
  last reference and the call.

`FinishLoad` is one action: the local copies of the Infos, declared after the
handle, are destroyed before `LoadLib`'s own reference goes, and where there are
any, their entries in `pluginToDlHandlePtrs` keep the library loaded anyway. One
thread at a time uses a Loader (`LoaderFree`): the class has no lock, so this is
the obligation of its callers and not something the code enforces.

A failing `dlopen` changes nothing and is not an action. `LoadLibError` is
another matter: `LoadLib` judges by `dlerror`, and a library whose initialisers
leave an error behind (`Noisy`) is opened and then reported as not opened.
The initialisers run when the library is mapped, so a second attempt succeeds.
`Exports[lib] = {}`
stands for every way in which `LoadPlugins` refuses a library (no hook, another
API version, size or alignment). User code in plugin constructors and
destructors does not call back into a Loader. A thread whose pending `dlclose`
is the last thing its call does counts as outside the Loader already, which
only adds behaviours.

### PluginLifetime

Each PluginPtr is a record with the three members of `Plugin::Implementation`;
the interface map distinguishes a missing key, an entry that is `nullptr`, and
an entry that points into an instance. A std::shared_ptr's count is derived
from its owners. Operations that let go of the instance and of the Info do so
in two steps, with the locals in `frame[t]`: first the Info or first the
instance, as the code has it; so do the two `lock` calls of
`WeakPluginPtr::Lock` and `IsExpired`, and the two erase calls of
`ForgetLibrary`. One PluginPtr object is used by one thread at a time (or read
by several), as its documentation implies; two PluginPtrs to the same instance
are used by different threads. A library is not loaded again after it was
forgotten. A PluginPtr or WeakPluginPtr that was moved from is used only where
the class permits it, which is as the target of another move, or to be
destroyed.

`Specialization[p]` is the list of interfaces of the type of `p`. `Bases` is
the virtual inheritance tree that `SpecializedPlugin<A, B, ...>` builds from it
(the class of the first interface, and that of the remaining list), each class of which took
an iterator into the interface map when it was constructed; `SpecializedFor`
is the selection of the class that answers a query, and `IteratorsValid` says
that every iterator still denotes an entry. A static plugin's code is part of
the executable, and `StaticRegistry::GetInfo` makes a new Info with every call
(`UnusedInfo`), owned by nobody but PluginPtrs; the Info of a plugin loaded
from file is shared with the registry while it is `known`. `program` fixes at the start which operations a behaviour uses, so
that one run can cover two kinds of programs.

### Factory

A product refers to a factory instance. `DeleteProduct`, `EndDelete`,
`DropFactory` are ProductDeleter; `LoseProduct`, `HandOver` (the critical
section of `~FactoryCounter`), `DropMember`, `Leave` are a plain `delete` of a
product that was released. `ConstructThrows` is a product's constructor that
ends with an exception: `Factory.hh:140` gives a product its reference only
after it is constructed, so `~FactoryCounter` then has nothing to hand over.
`CleanupLostProducts`, `EndWait`, `ClearLost` for
each element and `EndCleanup` are the cleanup. `LongWait` says whether the
safety wait suffices for the destructors that have already handed over their
reference to return; when it does not, the wait may end at any time. The run
has `LongWait = TRUE`, which assumes what the documentation asks of the caller;
no run shows a wait that is too short, and `FactoryCodeMapped` says under which
conditions there is nothing to show. LostProductCount only reads and is left out.

### Registration

Here the interest is in what gets registered where, and the Loader's counting is
reduced to its outcome: a library is loaded while an entry or a call of a
Loader refers to it, or a loaded library is linked or bound to it (`Kept`).

* `Register` and `RegisterStatic` are the constructor of one macro's object
  (`Registers[o]` are those compiled into `o`): `MakeInfo`, then the input side
  of `GzPluginHook` (`InputInfo`) or `StaticRegistry::AddInfo`
  (`StaticAddInfo`), which merge Infos of one class. The order is any that
  puts a library after those it is linked to (`MayInitialise`).
* `BoundHook` is external: `GzPluginHook` is found by name, first among the
  libraries the executable is linked to, then in the opened library and what
  it is linked to. `FindHook` is the `dlsym` of `LoadPlugins`, which starts at
  the opened library.
* `LoadLib`, `FindHook`, `LoadPlugins` (the hook's answer, the verdict on
  version and layout of Info, the copy of the map), `RegisterPlugin` for each
  Info, `FinishLoad`; `ForgetLibrary`, `ForgetPlugin` for each name,
  `FinishForget`. Calls into the dynamic linker wait while another thread's
  `dlopen` runs initialisers (`Quiet`), which is its lock; the call of the hook
  does not wait, because nothing makes it.
* The queries by interface and by alias are operators, over the Loader's
  registry and the StaticRegistry together.
* A hook is the one that `Register.hh` defines. `Register.hh:59` forbids any
  other, so the hand-written one of `test/plugins/BadPluginNoInfo.cc`, which
  `LoadPlugins` refuses for unknown reasons, is outside the model.

## Runs

| Run | Checks | Result |
|---|---|---|
| `loader_core` | `TypeOK`, `OpenCountExact`, `NoLeak`, `ProviderHandle`, `InstanceCodeMapped`, `AliasIndexExact`, `ResolvedNameUsable`, `ForgetIsComplete`, `ImplementsUsage` | hold |
| `loader_live` | `OpensCoverReferences`, `EntryProvides`, `AliasIndexCovers`, `ForgetIsComplete`, `CallsAdvance`, `CallReturns` | hold |
| `plugin_lifetime` | `TypeOK`, `InfoCodeMapped`, `InstanceHasItsInfo`, `InterfacesOwn`, `IteratorsValid`, `EntriesStay` | hold |
| `factory` | `TypeOK`, `CodeMapped`, `MutexReleased` | hold |
| `registration` | `TypeOK`, `HookExact`, `StaticExact`, `InfoCodeLoaded`, `HookNotRead`, `RefusalExplained`, `ReportsOwn`, `QueriesExact`, `AliasQueriesExact` | hold |
| `error_leaks` | `NoLeak` | violated |
| `provider_replaced` | `InfoCodeMapped` | violated |
| `alias_hides_name` | `NameBeatsAlias` | violated |
| `clear_order` | `InfoCodeMapped` | violated |
| `lock_without_info` | `LockFindsInfo` | violated |
| `stale_interface` | `HasInterfaceExact` | violated |
| `hook_shared` | `InfoCodeLoaded` | violated |

`loader_core` has two threads, two Loaders, two libraries, two handle values
and two instances. That is the least in which a library is unloaded and its
address given to another, in which two Loaders count opens of one library,
in which an instance outlives its Loader, and in which one thread's `dlclose`
falls into another's call. One library provides two plugins, so the loops run
twice; the plugins share an alias that is also a plugin's name, and a static
plugin has the name of another. `ImplementsUsage` is the refinement: every
behaviour of the Loader is one of `LibraryUsage` when the users of a library
are the Infos in the registries and the instances.

`loader_live` asks what is left when the libraries are not as they should be.
L1 and L2 both provide P, with an alias in L2 only, which L2's Q claims as well,
and the initialisers of L1 leave a stray `dlerror`, so that `LoadLib` may leave
it open. L3 provides nothing: its handle becomes a key of
`dlHandleToPluginMap` that keeps nothing loaded, and with two handle values for
three libraries that key soon denotes another library. `EntryProvides`,
`AliasIndexCovers` and `ForgetIsComplete` are what then holds in place of
`ProviderHandle`, `AliasIndexExact` and `ResolvedNameUsable`: an entry has the
handle of a loaded library that provides the plugin, though the Info may be
another library's; the alias index lacks nothing, though it may have names that
nobody keeps; and what `ForgetLibrary` is told to forget is forgotten.
Two threads use one Loader and its instance, which is enough for a `dlclose` of
one to fall into a call of the other, and leaves the state graph small enough
for `CallReturns`. `CallsAdvance` is the part of `CallReturns` that needs no
fairness: `StepsLeft` is the number of steps after which a call is over at the
latest, every step of the call lowers it, and no step of another thread raises
it. What several Loaders do to `OpensCoverReferences` and `CallsAdvance` is left
to their proofs.

`plugin_lifetime` has two threads, three PluginPtrs of which one is
specialized for two interfaces (the least with a tree of several classes), two
weak pointers and a shared one, and two plugins with different interfaces. A
behaviour runs one of three programs: one that forgets libraries and shares
interfaces, but never empties a PluginPtr in place nor locks a weak one; one
that clears and shares, with a static plugin; and one that locks weak pointers,
while the Loader forgets nothing. Outside such programs `InfoCodeMapped` or
`LockFindsInfo` fails, as `clear_order` and `lock_without_info` show.

`factory` has two threads, two factory instances of one library and two
products; at most one entry of the vector per factory when another product is
lost (`MaxLost`), which with two threads lets the vector hold two entries of
one factory.

`registration` has two Loaders and six libraries: X, linked to the plugin
library Y; Z, alone; V, built with another layout of Info; W, with another
version; N, without a hook. The classes of X, Z and the executable are each
registered by several macros, in every order; an alias is claimed by plugins of
X, Z and the executable; one class enables EnablePluginFromThis. That covers
each verdict of `LoadPlugins`, a library that is loaded twice through
different paths, and both Loaders inside calls at once. Deadlock is checked.

The runs with violations show what the code does against its own comments and
documents. Each is listed with the quoted text under `findings` in
`PROJECT.json`; in short:

* `LoadLib` takes an error that the library's own initialisers left in
  `dlerror` for a failure, and never closes the library (`error_leaks`);
* a plugin name that two libraries provide makes the registry and the handle
  table disagree, so that an Info stays whose library is unloaded
  (`provider_replaced`);
* the registry of loaded plugins is asked before the static one, so that an
  alias may hide a plugin's own name (`alias_hides_name`);
* `Clear` lets go of the instance before the Info (`clear_order`);
* an instance does not keep its Info, so that `Lock` and `PluginFromThis` may
  find an instance without Info (`lock_without_info`);
* `HasInterface` counts map entries that `Clear` left behind
  (`stale_interface`);
* the registrars of every library reach the hook of a plugin library that the
  executable is linked to, where their Infos outlive them (`hook_shared`).

Deadlock is not checked in the runs of `Loader` and `PluginLifetime`: a program
may destroy its Loaders, or use up its pointers, and stop. It is checked in
`factory`, whose only lock is the mutex of the lost products.

### Fairness

`CallReturns` and `MutexReleased` assume weak fairness of each thread's
`Continue`: a thread that is inside an operation and can go on does so, which
any preemptive scheduler gives. Nothing is assumed about a thread that is
outside, so calls need not be made and cleanups need not happen. Nothing is
assumed about which waiting thread a mutex goes to; a destructor could wait
for ever while others take the mutex again and again, and no property says
otherwise.

## Proofs

All for every value of the constants that satisfies the named assumptions
(distinct null values, types of the parameters, finitely many threads and
Loaders).

* `LoaderTypeCorrect` (`LoaderProofs`): `Spec => []TypeOK`.
* `LoaderOpensCoverReferences` and `LoaderOpenCountExact` (`RefCountProofs`):
  `Spec => []OpensCoverReferences`, without any assumption on the libraries, and
  `Spec => []OpenCountExact`, if none is `Noisy`; `error_leaks` shows why. The
  count of opens is not inductive by itself: the step that drops a reference
  must know that the handle it drops is that of a loaded library, and that a
  handle belongs to one library. The inductive invariant is
  `TypeOK /\ CountInv /\ HandleInv`: the counts (`OpensCounted`: at least as many
  opens as references, and exactly as many when no library is `Noisy`); that a
  library that is not loaded has no opens and that no two loaded libraries
  share a handle; that the handle a `LoadLib` in progress works with is still
  that of its library; and that an instance with a handle refers to a control
  block of some Loader. There is one lemma per action that changes a count.
* `LoaderForgetIsComplete` (`UsageProofs`): `Spec => ForgetIsComplete`, whatever
  the libraries provide. Two facts meet when `ForgetLibrary` returns. By
  `EntryInv`, `dlHandleToPluginMap` has every name of the library whose handle
  an entry has, or a call is about to save them: the entry keeps the library open
  (`CountInv`), so the handle cannot come to denote another one. By `ForgetInv`,
  what still has the handle is among the names that the loop has left. It needs
  that no other thread is in the same Loader (`CallInv`).
* `LoaderNoLeak` (`UsageProofs`): `Spec => []NoLeak`, if no library is `Noisy`,
  whatever names the libraries provide. `OpenInv` (a loaded library is open or
  must stay) turns the count of references into one that exists. With
  `EntryInv`, `ForgetInv` and `CallInv` (one thread at a time in a Loader; it
  registers what the library reports; an entry is erased only after its Info)
  it makes the invariant `EntriesInv`, which holds for all libraries.
* `LoaderEntryProvides` and `LoaderAliasIndexCovers` (`UsageProofs`):
  `Spec => []EntryProvides` and `Spec => []AliasIndexCovers`, whatever the
  libraries provide. The first is part of `EntryInv`, which is inductive with
  the counts, because the entry itself keeps its library open. For the second
  `EntriesInv` has `CoverInv`: besides covering every alias, each Info is stored
  under its own name, so that `ForgetInfo` takes no other plugin's name out of
  the index (`AddInfoCovers`, `ForgetInfoCovers` in `RegistryProofs`).
* `LoaderProviderHandle`, `LoaderInfoCodeMapped`, `LoaderInstanceCodeMapped`,
  `LoaderAliasIndexExact`, `LoaderResolvedNameUsable` and
  `LoaderImplementsUsage` (`UsageProofs`): `Spec =>` each property of that
  name, and the refinement of `LibraryUsage`, if plugin names are unique
  (`UniqueProviders`; `provider_replaced` violates `InfoCodeMapped` where they
  are not). A stray `dlerror` does no harm here. None is
  inductive alone, for each relies on the others: the handle of an entry stays
  that of its library because the entry makes the control block live and the
  count cover it (`UsedLibrariesStay`), which needs `CountInv`; that a plugin
  registered again comes from the same library needs `ProviderInv`. The
  inductive invariant `UsageInv` adds to `EntriesInv`: `ProviderInv` (a known
  Info is its library's, which is loaded and has the entry's handle),
  `IndexInv` (the alias index is exact) and `InstInv` (an instance has the
  handle of its library, which is loaded). For the
  refinement each action is mapped to `Map`, `Unmap`, `Use`, `Leave` or a
  stutter; the crucial case is `CloseHandle`, where `Unmap` needs that nothing
  uses the library.
* `LoaderCallsAdvance` (`UsageProofs`): `Spec => CallsAdvance`, if there are
  finitely many names. `TurnsLeft` counts the turns that the loop of a call has
  left, twice for `ForgetLibrary`, whose loop has two actions; `StepsLeft` adds
  the `dlclose` that may be pending. That the loop over the entries in the
  destructor gets shorter, and that no other thread adds to them, needs
  `CallInv`; so does the step that erases an entry, which must be one that is
  left. So no call goes on for ever. That a call always can take its next step
  is about ENABLED, and that it does is the fairness: both are left to
  `CallReturns`.
* `LookupFindsInfo` (`RegistryProofs`): while the alias index is exact, what
  `LookupPlugin` resolves has an Info; with lemmas that AddInfo of an unknown name
  and ForgetInfo keep the index exact.
* `LifetimeTypeCorrect`, `IteratorsStayValid`, `InterfacesAreOwn` and
  `EntriesAlwaysStay` (`PluginLifetimeProofs`): `Spec =>` `[]TypeOK`,
  `[]IteratorsValid`, `[]InterfacesOwn` and `EntriesStay`, for every set of
  programs. The inductive invariant `ObjectInv` says which objects an
  operation in progress relies on (`FrameInv`), that no other thread writes or
  copies the object one thread is writing (`Exclusive`), that an object whose
  assignment is under way is empty (`ClearedInv`), and that every entry points
  into the object's instance unless `Clear` has yet to reset the map
  (`EntriesInv`).
* `InfoCodeStaysMapped` and `InstancesHaveTheirInfo` (`PluginLifetimeProofs`):
  `Spec => []InfoCodeMapped` and `[]InstanceHasItsInfo`, if every program is a
  `SafeProgram`: one that forgets libraries does not clear, and one that locks
  neither forgets nor has static plugins. `LifetimeInv` adds that the Loader
  holds the library of a known Info, that an instance is never referred to
  without its Info (`InfoInv`), and, where libraries are forgotten, an Info
  never without its instance (`OwnerInv`), which is what keeps its library
  loaded.
* `FactoryTypeCorrect`, `FactoryCodeMapped` (`FactoryProofs`): if either the
  safety wait is sufficient or there is one thread, the two cases that the
  documentation of CleanupLostProducts permits, then `Spec => []CodeMapped`.
  A thread that is leaving a plain delete owns nothing, and relies on its copy
  in `lostProducts`. The inductive invariant `CodeInv` says that the copy is
  there until it has left: only the owner of the mutex removes copies, and it
  begins when nobody is leaving and nobody can start to.
* `RegistrationTypeCorrect`, `RegistrationRefusalExplained` and
  `RegistrationStaticExact` (`RegistrationProofs`): `Spec =>` `[]TypeOK`,
  `[]RefusalExplained` and `[]StaticExact`, however libraries and executable
  are linked. `StaticExact` is proved one registration at a time
  (`StaticAdded`): what is executed next is added to what is there, and no
  fact about the order is used.
* `RegistrationHookExact`, `RegistrationHookNotRead` and
  `RegistrationReportsOwn`: the same for the hooks, if the registrars of each
  library reach the hook of a library that they are linked to, or their own
  (`OwnHooks`). It is what `hook_shared` violates; where the executable is
  linked to no plugin library it can be had, and TLC evaluates it for the
  instance of `registration` (`InstanceAssumption` of `MCRegistration`). The
  inductive invariant has `LinkInv` (what is loaded is loaded with all it is
  linked to, which includes what a handle or a call refers to, and only
  loaded objects are pending), `HookInv` (a hook that registrars reach keeps
  their library loaded; a hook that is not loaded has an empty map),
  `HookExact`, which is kept when a library is unloaded because its hook goes
  before it or with it, and `ReportInv` (what a call has read and not yet
  registered).
* `RegistrationInfoCodeLoaded`: `Spec => []InfoCodeLoaded`, if besides no two
  objects register a plugin by one name (`UniqueNames`). The invariant
  `CodeInv` says of the Infos of a hook that their code is of libraries the
  hook is linked to, and of those in a Loader's table that it is of libraries
  that the entry's handle keeps loaded. A plugin that is registered again
  merges into an Info which is already there, and by `UniqueNames` that one is
  of the same library.

* `RegistrationQueriesExact` and `RegistrationAliasQueriesExact` (`QueryProofs`):
  `Spec =>` `[]QueriesExact` and `[]AliasQueriesExact`, if besides `OwnHooks` and
  `UniqueNames` no two classes have one demangled name (`DistinctNames`).
  `InfoCodeLoaded` says that nothing foreign is in a Loader's table; the
  queries need that nothing is missing either. The invariant says so of what a
  call has read from a hook (`CallsFull`) and of the tables (`TablesFull`, which
  has the alias index as well), and that a plugin which is known has no
  registration that is still to run (`DoneInv`): so a table that was complete
  when the library was registered stays complete. What is read from a hook is
  complete because its libraries have been initialised when `dlopen` returns
  (`HookFull`). For the static plugins `StaticExact` says all that is needed;
  `InterfaceAnswers` and `AliasAnswers` then compute the answers from both
  tables.

Only model-checked: `CallReturns` and `MutexReleased`, because liveness is
beyond the prover. `LoaderCallsAdvance` proves the safety part of `CallReturns`,
that no call takes infinitely many steps.

## Not modelled

* Demangling (`core/src/utility.cc`) is a function of the compiler's ABI
  library; names are model values, and `NameOf` stands for the conversion.
* The command-line tool parses arguments and prints what `LoadLib` and the
  queries return. The layout of what `PrettyStr` prints is left out as well.
* `Info::Clear`, which the library does not call, and `LostProductCount`, which
  only reads.
* Products that a factory instance itself owns: its destructor would run them
  during a cleanup, with the mutex held.
* Static registration from a library that is opened at run time: the code
  assumes that static plugins are part of the executable.
* Build files, examples, tests and vendored code.

## Plan

Done: Registry, Loader, PluginPtr with its specializations, WeakPluginPtr,
Factory, Registration and the queries; the proofs listed above.

Every safety invariant and action property of the passing runs is a theorem.

Next:

1. The part of `MutexReleased` that needs no fairness: every step of a cleanup
   brings it nearer to its end, or is the end of its wait.
2. Factory instances that own products.
