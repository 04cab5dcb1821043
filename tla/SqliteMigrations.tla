-------------------------- MODULE SqliteMigrations --------------------------
(* The migrations for SQLite, one definition per file, in their order.     *)
EXTENDS SchemaTables

Baseline == Migration(<<>>, <<>>)
CreateTenants == Migration(<<Create(Tenants)>>, <<Drop(Tenants)>>)
CreatePrincipals == MakingByRebuild(<<Principals>>)
CreateUsers == MakingByRebuild(<<Users>>)
CreateGroups == MakingByRebuild(<<Groups, GroupMemberships>>)
CreateCredentials == MakingByRebuild(<<Credentials>>)
CreateCollections == MakingByRebuild(<<Collections>>)
CreateFileResources == MakingByRebuild(<<FileResources, FileContents>>)
CreateDeadProperties == MakingByRebuild(<<CollectionProperties, FileProperties>>)
CreateCollectionChanges == MakingByRebuild(<<CollectionChanges>>)
CreateAces == MakingByRebuild(<<CollectionAces, FileAces>>)
CreateLocks == MakingByRebuild(<<CollectionLocks, FileLocks>>)
CreateAddressbooks == MakingByRebuild(<<Addressbooks>>)
CreateAddressObjects == MakingByRebuild(<<AddressObjects, AddressObjectContents>>)
CreateAddressbookDeadProperties ==
  MakingByRebuild(<<AddressObjectProperties, AddressbookProperties>>)
CreateAddressbookAcesLocksChanges ==
  MakingByRebuild(<<AddressObjectAces, AddressObjectLocks, AddressbookAces,
                    AddressbookLocks, AddressbookChanges>>)
CreateAddressObjectIndex == MakingByRebuild(<<AddressObjectIndexes>>)
AddAddressObjectName == RebuildingOnce(NamedAddressObjects, AddressObjects)
\* Once to rename the column, once more to make it NOT NULL.
RenameAddressbookChangeToName ==
  Migration(<<Rebuild(NamedChanges), Rebuild(NamedChanges)>>,
            <<RebuildBack(NamedChanges), RebuildBack(AddressbookChanges)>>)
CreateCalendars == MakingByRebuild(<<Calendars>>)
CreateCalendarObjects == MakingByRebuild(<<CalendarObjects, CalendarObjectContents>>)
CreateCalendarDeadProperties ==
  MakingByRebuild(<<CalendarObjectProperties, CalendarProperties>>)
CreateCalendarAcesLocksChanges ==
  MakingByRebuild(<<CalendarAces, CalendarChanges, CalendarLocks,
                    CalendarObjectAces, CalendarObjectLocks>>)
AddCalendarName == RebuildingOnce(NamedCalendars, Calendars)
CreateSchedulingInboxItems == MakingByRebuild(<<SchedulingInboxItems>>)
\* The column first, its reference in a second rebuild.
AddUserDefaultCalendar ==
  LET unbound == WithRefs(UsersWithDefault, Users.shape.refs)
  IN Migration(<<Rebuild(unbound), Rebuild(UsersWithDefault)>>,
               <<RebuildBack(unbound), RebuildBack(Users)>>)

\* AddTenantCascadeDeletes: every table loses its references, then every table
\* gets the new ones; the revert goes backwards, again in two passes.
Loosened(tables) == Each(tables, LAMBDA x : Rebuild(WithRefs(x, {})))
Cascaded(tables) == Each(tables, LAMBDA x : Rebuild(Cascading(x)))
LoosenedBack(tables) ==
  Each(Reverse(tables), LAMBDA x : RebuildBack(WithRefs(x, {})))
Restored(tables) == Each(Reverse(tables), RebuildBack)

LoosenCollectionTables == Loosened(CollectionTables)
LoosenAttachedTables == Loosened(AttachedTables)
LoosenCalendarTables == Loosened(CalendarTables)
LoosenUserTables == Loosened(UserTables)
CascadeCollectionTables == Cascaded(CollectionTables)
CascadeAttachedTables == Cascaded(AttachedTables)
CascadeCalendarTables == Cascaded(CalendarTables)
CascadeUserTables == Cascaded(UserTables)
LoosenUserCascades == LoosenedBack(UserTables)
LoosenCalendarCascades == LoosenedBack(CalendarTables)
LoosenAttachedCascades == LoosenedBack(AttachedTables)
LoosenCollectionCascades == LoosenedBack(CollectionTables)
RestoreUserTables == Restored(UserTables)
RestoreCalendarTables == Restored(CalendarTables)
RestoreAttachedTables == Restored(AttachedTables)
RestoreCollectionTables == Restored(CollectionTables)
AddTenantCascadeDeletes ==
  Migration(
    LoosenCollectionTables \o LoosenAttachedTables \o
    LoosenCalendarTables \o LoosenUserTables \o
    CascadeCollectionTables \o CascadeAttachedTables \o
    CascadeCalendarTables \o CascadeUserTables,
    LoosenUserCascades \o LoosenCalendarCascades \o
    LoosenAttachedCascades \o LoosenCollectionCascades \o
    RestoreUserTables \o RestoreCalendarTables \o
    RestoreAttachedTables \o RestoreCollectionTables)

\* The rebuild that adds the new types and the unique index of an OAuth2 identity
\* is forgotten.
AddDigestAndOauth2Credentials_Mutant ==
  Migration(<<Rebuild(WideCredentials)>>, <<RebuildBack(CascadingCredentials)>>)
AddDigestAndOauth2Credentials ==
  Migration(<<Rebuild(WideCredentials), Rebuild(DigestCredentials)>>,
            <<RebuildBack(WideCredentials), RebuildBack(CascadingCredentials)>>)
\* The objects that no longer fit are not deleted.
AddTaskComponentTypes_Mutant ==
  RebuildingOnce(TaskObjects, Cascading(CalendarObjects))
\* Only an enumeration changes, but the table is rebuilt.
AddTaskComponentTypes ==
  Migration(<<Rebuild(TaskObjects)>>,
            <<DeleteRows("calendar_objects", TaskTypes),
              RebuildBack(Cascading(CalendarObjects))>>)

SqliteMigrationList ==
  << Baseline, CreateTenants, CreatePrincipals, CreateUsers, CreateGroups,
     CreateCredentials, CreateCollections, CreateFileResources,
     CreateDeadProperties, CreateCollectionChanges, CreateAces, CreateLocks,
     CreateAddressbooks, CreateAddressObjects, CreateAddressbookDeadProperties,
     CreateAddressbookAcesLocksChanges, CreateAddressObjectIndex,
     AddAddressObjectName, RenameAddressbookChangeToName, CreateCalendars,
     CreateCalendarObjects, CreateCalendarDeadProperties,
     CreateCalendarAcesLocksChanges, AddCalendarName, CreateSchedulingInboxItems,
     AddUserDefaultCalendar, AddTenantCascadeDeletes,
     AddDigestAndOauth2Credentials, AddTaskComponentTypes >>
=============================================================================
