------------------------------ MODULE Services ------------------------------
(***************************************************************************)
(* Services of the bot's core that share no state, side by side: a         *)
(* behaviour is one of exactly one of them, the rest stay as they began.   *)
(* What couples them in the code is inside the modules: events that start  *)
(* a call (guild.removed, guild.created, a grant's change), jobs, rows.    *)
(***************************************************************************)
EXTENDS EventBus, PluginLifecycle, Notifications, TwoLevelCache, Permissions,
        Translations, GuildRegistry, WebhookEndpoints, GuildSettings

VARIABLE focus    \* the service this behaviour is one of

servicesVars ==
    << focus, vars, pluginVars, noteVars, cacheVars, permissionVars, textVars, registryVars,
       endpointVars, settingsVars >>

ServicesInit ==
    /\ focus \in {"events", "plugins", "notifications", "cache", "permissions", "translations", "registry",
                 "endpoints", "settings"}
    /\ Init /\ NotificationsInit /\ PermissionsInit /\ TranslationsInit /\ EndpointsInit /\ SettingsInit
    /\ PluginInit /\ (focus # "plugins" => ~entry.loaded)
    /\ CacheInit /\ (focus # "cache" => use = "snapshot")
    /\ RegistryInit
    /\ focus # "registry" => member = {} /\ \A g \in Servers : guildRow[g] = "absent"

\* The services but one, which are at rest.
Others(name) ==
    /\ name # "events" => UNCHANGED vars
    /\ name # "plugins" => UNCHANGED pluginVars
    /\ name # "notifications" => UNCHANGED noteVars
    /\ name # "cache" => UNCHANGED cacheVars
    /\ name # "permissions" => UNCHANGED permissionVars
    /\ name # "translations" => UNCHANGED textVars
    /\ name # "registry" => UNCHANGED registryVars
    /\ name # "endpoints" => UNCHANGED endpointVars
    /\ name # "settings" => UNCHANGED settingsVars

ServicesNext ==
    /\ focus' = focus /\ Others(focus)
    /\ \/ focus = "events" /\ Next
       \/ focus = "plugins" /\ PluginNext
       \/ focus = "notifications" /\ NotificationsNext
       \/ focus = "cache" /\ CacheNext
       \/ focus = "permissions" /\ PermissionsNext
       \/ focus = "translations" /\ TranslationsNext
       \/ focus = "registry" /\ RegistryNext
       \/ focus = "endpoints" /\ EndpointsNext
       \/ focus = "settings" /\ SettingsNext

ServicesSpec == ServicesInit /\ [][ServicesNext]_servicesVars

\* The variables of the service a behaviour is about keep their types.
ServicesTypeOK ==
    /\ focus = "events" => TypeOK
    /\ focus = "plugins" => PluginTypeOK
    /\ focus = "notifications" => NotificationsTypeOK
    /\ focus = "cache" => CacheTypeOK
    /\ focus = "permissions" => PermissionsTypeOK
    /\ focus = "translations" => TranslationsTypeOK
    /\ focus = "registry" => RegistryTypeOK
    /\ focus = "endpoints" => EndpointsTypeOK
    /\ focus = "settings" => SettingsTypeOK
=============================================================================
